---- MODULE Spec2Model ----
(***************************************************************************)
(* Differential-drive base controller (ubr_controllers::BaseController).   *)
(*                                                                         *)
(* Units.  Doubles are modelled by integers on a grid on which every       *)
(* division the code performs is exact:                                    *)
(*   - time is counted in clock units (ros::Time / ros::Duration),         *)
(*   - velocities in velocity units, accelerations in velocity units per   *)
(*     clock unit,                                                         *)
(*   - headings in quarter turns, so that cos and sin are exact.           *)
(* The configuration values are node parameters (nh.param); the model      *)
(* fixes one configuration.                                                *)
(***************************************************************************)
EXTENDS Integers, Sequences, FiniteSets, TLC

\* ------------------------------------------------------------------ bounds
\* ros::Time::now() when the controller object is constructed (wall clock:
\* far later than the zero stamp of a default-constructed ros::Time).
BootTime == 3
\* Number of clock units the model follows after construction.
Horizon == 6
MaxTime == BootTime + Horizon

\* the max_velocity_x and max_velocity_r parameters, in velocity units
max_velocity_x_ == 2
max_velocity_r_ == 3

\* ------------------------------------------------------- configuration
\* the track_width parameter
TrackWidth == 2
radians_per_meter_ == 2
timeout_ == 2
max_acceleration_x_ == 2
max_acceleration_r_ == 3
\* the literal 0.05 of the write gate, in velocity units
WriteGate == 1
\* moving_threshold (0.0001 by default: below one velocity unit)
moving_threshold_ == 0

\* linear.x and angular.z of the geometry_msgs::Twist messages received
DesiredX == {-3, 0, 3}
DesiredR == {0, 4}

\* Joint increments (left, right) of one clock unit, in joint radians:
\* straight, spin left, spin right, pivot about the left wheel, reverse.
WheelSteps == {<<2, 2>>, <<-2, 2>>, <<2, -2>>, <<0, 4>>, <<-2, -2>>}
NoStep == <<0, 0>>

VARIABLES
  initialized_,          \* bool initialized_
  last_command_,         \* ros::Time of the last command
  last_update_,          \* ros::Time of the last update
  desired_x_, desired_r_,
  last_sent_x_, last_sent_r_,
  left_last_position_, right_last_position_,
  theta_,
  odom_,                 \* nav_msgs::Odometry: x, y, orientation, vx, vr
                         \* and the stamp of its header
  track_width_,          \* double track_width_: the configured track_width
                         \* parameter, which init loads; nothing reads the
                         \* member before init has succeeded
  publish_tf_,           \* bool publish_tf_: the configured publish_tf
                         \* parameter, which init loads
  nonfinite,             \* the doubles among left_last_position_,
                         \* right_last_position_, theta_ and the x, y, vx,
                         \* vr of odom_ that hold a NaN or an infinity
                         \* (their integer value then stands for nothing)
  left_, right_,         \* joint handles: position, velocity, command,
                         \* writes (setVelocityCommand calls since the clock
                         \* last advanced), nan (the feedback values that
                         \* read as NaN), faulty (the joint rejects
                         \* setpoints)
  odom_pub_,             \* the odometry messages published on "odom"
  broadcaster_,          \* the transforms sent by the tf broadcaster
  clock,                 \* ros::Time::now()
  last_cycle,            \* time of the manager's previous update cycle
  phase,                 \* the manager's view of the controller
  ret,                   \* the last call and what it returned
  callback,              \* the command callback's thread: where it is in
                         \* command() and the message it is handling
  tick,                  \* the control thread: where it is in update()
                         \* and what its timeout test found
  stale_ticks,           \* history: update ticks in a row that saw a timeout
  ramp,                  \* history of a run with a fixed period (SpecRamp)
  track,                 \* history of the odometry (SpecOdom and the like)
  \* lama_jockeys::NavigatingJockey
  start_time_,           \* ros::Time the action started
  interrupted_,          \* bool interrupted_
  interruption_time_,    \* ros::Time of the interruption under way
  resume_time_,          \* ros::Time of the last resume
  interruptions_duration_,
  goal_,                 \* the goal kept: its action and its edge
  result_,               \* the NavigateResult
  server_,               \* the action server: the state of its goal
  episode,               \* history: the interruptions since initAction
  \* kinova::JacoArm
  joint_velocities_,
  last_joint_vel_cmd_time_,
  joint_vel_timer_,      \* ros::Timer: whether it is started, when it is due
  joint_vel_timer_flag_,
  cartesian_velocities_,
  last_cartesian_vel_cmd_time_,
  cartesian_vel_timer_,
  cartesian_vel_timer_flag_,
  jaco_comm_             \* the arm: whether it is stopped, the joint and the
                         \* cartesian velocities it was sent

ctrl == <<initialized_, last_command_, last_update_, desired_x_, desired_r_,
          last_sent_x_, last_sent_r_, left_last_position_,
          right_last_position_, theta_, odom_, track_width_,
          publish_tf_, nonfinite>>
joints == <<left_, right_>>
outputs == <<odom_pub_, broadcaster_>>
threads == <<callback, tick>>
history == <<stale_ticks, ramp, track>>
jockey == <<start_time_, interrupted_, interruption_time_, resume_time_,
            interruptions_duration_, goal_, result_, server_>>
arm == <<joint_velocities_, last_joint_vel_cmd_time_, joint_vel_timer_,
         joint_vel_timer_flag_, cartesian_velocities_,
         last_cartesian_vel_cmd_time_, cartesian_vel_timer_,
         cartesian_vel_timer_flag_, jaco_comm_>>
\* the nodes the base controller has nothing to do with
others == <<jockey, episode, arm>>
\* the base controller, its joints and its manager
base == <<ctrl, joints, outputs, last_cycle, phase, ret, threads, history>>
vars == <<ctrl, joints, outputs, clock, last_cycle, phase, ret, threads,
          history, others>>

\* ---------------------------------------------------------------- helpers
Abs(v) == IF v < 0 THEN -v ELSE v
Min(a, b) == IF a < b THEN a ELSE b
\* a / b of two doubles when it is finite; a / 0.0 is an infinity or a NaN,
\* which the model records in nonfinite (the 0 then stands for nothing)
Quotient(a, b) == IF b = 0 THEN 0 ELSE a \div b

\* cos and sin of a heading given in quarter turns
cos(th) == CASE th % 4 = 0 -> 1 [] th % 4 = 2 -> -1 [] OTHER -> 0
sin(th) == CASE th % 4 = 1 -> 1 [] th % 4 = 3 -> -1 [] OTHER -> 0

\* The pair (sin(th/2), cos(th/2)) stored as orientation.z and .w, named by
\* the eighth of a turn it stands for: the pair repeats after two full turns.
orientation(th) == th % 8

Called(op, val, force) == [op |-> op, val |-> val, force |-> force]
\* the callback thread between two messages
NoMessage == [pc |-> "idle", x |-> 0, r |-> 0]
\* the control thread between two update ticks
\* (with the locals of update: the displacements and joint velocities it
\* read, what it calculated from them, and which of them are no numbers)
NoTick ==
  [pc |-> "idle", now |-> 0, dt |-> 0, stale |-> FALSE,
   left_dx |-> 0, right_dx |-> 0, left_velocity |-> 0, right_velocity |-> 0,
   d |-> 0, th |-> 0, dx |-> 0, dr |-> 0, nan |-> {}]
NoCall == Called("none", FALSE, FALSE)

\* the smallest n with n * b >= a, for a >= 0 and b > 0
CeilDiv(a, b) == (a + b - 1) \div b
Between(lo, v, hi) == (lo <= v /\ v <= hi) \/ (hi <= v /\ v <= lo)
NoRamp == [from_x |-> 0, from_r |-> 0, el |-> 0, wait |-> 0, ticks |-> 0]
\* x0, y0, th0, n, d: the pose before the present run of n ticks that each
\*   measured the displacement d on both wheels;
\* left_init, right_init: the joint positions captured by init;
\* left_used, right_used: the joint positions the last tick's displacements
\*   were computed from;
\* left_sum, right_sum: the sums of the displacements of all ticks since init;
\* turn_sum: the sum of the turns of all ticks;
\* mixed_x, mixed_r: the issued twist of the last tick that wrote setpoints.
NoTrack ==
  [x0 |-> 0, y0 |-> 0, th0 |-> 0, n |-> 0, d |-> 0,
   left_init |-> 0, right_init |-> 0, left_used |-> 0, right_used |-> 0,
   left_sum |-> 0, right_sum |-> 0, turn_sum |-> 0,
   mixed_x |-> 0, mixed_r |-> 0]

\* a joint at rest that reports its feedback and accepts setpoints
Joint ==
  [position |-> 0, velocity |-> 0, command |-> 0, writes |-> 0,
   nan |-> {}, faulty |-> FALSE]

\* ------------------------------------------------------------ construction
\* The controller object after its constructor, but for the parameters.
Constructed ==
  /\ initialized_ = FALSE
  /\ last_command_ = 0
  /\ last_update_ = 0
  /\ desired_x_ = 0 /\ desired_r_ = 0
  /\ last_sent_x_ = 0 /\ last_sent_r_ = 0
  /\ left_last_position_ = 0 /\ right_last_position_ = 0
  /\ theta_ = 0
  /\ odom_ = [x |-> 0, y |-> 0, orientation |-> 0, vx |-> 0, vr |-> 0,
              stamp |-> 0]
  /\ odom_pub_ = <<>>
  /\ broadcaster_ = <<>>
  /\ left_ = Joint
  /\ right_ = Joint
  /\ clock = BootTime
  /\ last_cycle = BootTime
  /\ phase = "Uninitialized"
  /\ ret = NoCall
  /\ callback = NoMessage
  /\ tick = NoTick
  /\ nonfinite = {}
  /\ stale_ticks = 0
  /\ ramp = NoRamp
  /\ track = NoTrack

\* A NavigatingJockey that has run initAction at time 0 and has not been
\* used since.
NoGoal == [action |-> "STOP", edge |-> 0]
NoEpisode == [init |-> TRUE, open |-> FALSE, first |-> 0, sum |-> 0,
              call |-> "none"]

JockeyAtRest ==
  /\ start_time_ = 0
  /\ interrupted_ = FALSE
  /\ interruption_time_ = 0
  /\ resume_time_ = 0
  /\ interruptions_duration_ = 0
  /\ goal_ = NoGoal
  /\ result_ = "NavigateResult()"
  /\ server_ = "idle"
  /\ episode = NoEpisode

\* JacoArm::JacoArm: both velocity timers are created and stopped, their
\* flags false; the arm is not stopped and has been sent nothing.
NoTimer == [started |-> FALSE, due |-> 0]

ArmConstructed ==
  /\ joint_velocities_ = 0
  /\ last_joint_vel_cmd_time_ = 0
  /\ joint_vel_timer_ = NoTimer
  /\ joint_vel_timer_flag_ = FALSE
  /\ cartesian_velocities_ = 0
  /\ last_cartesian_vel_cmd_time_ = 0
  /\ cartesian_vel_timer_ = NoTimer
  /\ cartesian_vel_timer_flag_ = FALSE
  /\ jaco_comm_ = [stopped |-> FALSE, joint |-> <<>>, cartesian |-> <<>>]

Elsewhere == JockeyAtRest /\ ArmConstructed

Init ==
  /\ Constructed
  /\ track_width_ = TrackWidth
  /\ publish_tf_ = TRUE
  /\ Elsewhere

\* --------------------------------------------------------------- init()
\* init that never tests the right joint handle
init_left_only(has_manager, has_left, has_right) ==
  /\ phase = "Uninitialized"
  /\ IF has_manager /\ has_left
       THEN /\ left_last_position_' = left_.position
            /\ right_last_position_' = right_.position
            /\ last_update_' = clock
            /\ initialized_' = TRUE
            /\ phase' = "Idle"
            /\ ret' = Called("init", TRUE, FALSE)
       ELSE /\ initialized_' = FALSE
            /\ ret' = Called("init", FALSE, FALSE)
            /\ UNCHANGED <<left_last_position_, right_last_position_,
                           last_update_, phase>>
  /\ UNCHANGED <<last_command_, desired_x_, desired_r_, last_sent_x_,
                 last_sent_r_, theta_, odom_, track_width_,
                 publish_tf_, nonfinite,
                 joints, clock, last_cycle, threads, outputs, others>>

\* bool BaseController::init(nh, manager); has_manager, has_left, has_right
\* say which of the manager and the two joint handles exist.
init(has_manager, has_left, has_right) ==
  /\ phase = "Uninitialized"
  /\ IF has_manager /\ has_left /\ has_right
       THEN /\ left_last_position_' = left_.position
            /\ right_last_position_' = right_.position
            /\ last_update_' = clock
            /\ initialized_' = TRUE
            /\ phase' = "Idle"
            /\ ret' = Called("init", TRUE, FALSE)
       ELSE /\ initialized_' = FALSE
            /\ ret' = Called("init", FALSE, FALSE)
            /\ UNCHANGED <<left_last_position_, right_last_position_,
                           last_update_, phase>>
  /\ UNCHANGED <<last_command_, desired_x_, desired_r_, last_sent_x_,
                 last_sent_r_, theta_, odom_, track_width_,
                 publish_tf_, nonfinite,
                 joints, clock, last_cycle, threads, outputs, others>>

\* ------------------------------------------------------------- the manager
\* ControllerManager::requestStart(name_): the controller is started when
\* its start() succeeds; a refused start leaves things as they are.
requestStart(started) == IF started THEN "Running" ELSE phase

\* ---------------------------------------------------------------- start()
\* start that lets a command of exactly the timeout's age pass
start_late(initialized, now, last_command) ==
  IF ~initialized THEN FALSE
  ELSE IF now - last_command > timeout_ THEN FALSE
  ELSE TRUE

\* start that only looks at the initialized flag
start_unchecked(initialized, now, last_command) == initialized

\* bool BaseController::start(), with ros::Time::now() = now
start(initialized, now, last_command) ==
  IF ~initialized THEN FALSE
  ELSE IF now - last_command >= timeout_ THEN FALSE
  ELSE TRUE

Start ==
  /\ ret' = Called("start", start(initialized_, clock, last_command_), FALSE)
  /\ phase' = requestStart(start(initialized_, clock, last_command_))
  /\ UNCHANGED <<ctrl, joints, clock, last_cycle, threads, outputs, others>>

\* -------------------------------------------------------------- command()
\* command that stores the message without asking the manager for a start
command_unstarted(x, r) ==
  IF ~initialized_
    THEN /\ ret' = Called("command", FALSE, FALSE)
         /\ UNCHANGED <<ctrl, joints, clock, last_cycle, phase,
                     threads, outputs, others>>
    ELSE /\ last_command_' = clock
         /\ desired_x_' = x
         /\ desired_r_' = r
         /\ ret' = Called("command", TRUE, FALSE)
         /\ UNCHANGED <<initialized_, last_update_, last_sent_x_,
                        last_sent_r_, left_last_position_,
                        right_last_position_, theta_, odom_, track_width_,
                        publish_tf_, nonfinite, joints, clock, last_cycle,
                        phase, threads, outputs, others>>

\* command that stores the message whether or not init has succeeded
command_unguarded(x, r) ==
  /\ last_command_' = clock
  /\ desired_x_' = x
  /\ desired_r_' = r
  /\ phase' = requestStart(start(initialized_, clock, clock))
  /\ ret' = Called("command", initialized_, FALSE)
  /\ UNCHANGED <<initialized_, last_update_, last_sent_x_,
                 last_sent_r_, left_last_position_,
                 right_last_position_, theta_, odom_, track_width_,
                 publish_tf_, nonfinite, joints, clock, last_cycle,
                 threads, outputs, others>>

\* void BaseController::command(msg), msg->linear.x = x, msg->angular.z = r
command(x, r) ==
  IF ~initialized_
    THEN /\ ret' = Called("command", FALSE, FALSE)
         /\ UNCHANGED <<ctrl, joints, clock, last_cycle, phase,
                     threads, outputs, others>>
    ELSE /\ last_command_' = clock
         /\ desired_x_' = x
         /\ desired_r_' = r
         /\ phase' = requestStart(start(initialized_, clock, clock))
         /\ ret' = Called("command", TRUE, FALSE)
         /\ UNCHANGED <<initialized_, last_update_, last_sent_x_,
                        last_sent_r_, left_last_position_,
                        right_last_position_, theta_, odom_, track_width_,
                        publish_tf_, nonfinite, joints, clock, last_cycle,
                        threads, outputs, others>>

\* command() as the callback's thread runs it, statement by statement, while
\* the control thread may run between the statements (nothing in command()
\* or update() locks the fields they share).
\* "last_command_ = ros::Time::now()", after the initialized_ test
command_stamp(x, r) ==
  /\ callback.pc = "idle"
  /\ IF ~initialized_
       THEN /\ ret' = Called("command", FALSE, FALSE)
            /\ UNCHANGED <<ctrl, callback>>
       ELSE /\ last_command_' = clock
            /\ callback' = [pc |-> "stamped", x |-> x, r |-> r]
            /\ ret' = NoCall
            /\ UNCHANGED <<initialized_, last_update_, desired_x_,
                           desired_r_, last_sent_x_, last_sent_r_,
                           left_last_position_, right_last_position_,
                           theta_, odom_, track_width_,
                           publish_tf_, nonfinite>>
  /\ UNCHANGED <<joints, clock, last_cycle, phase, tick, outputs, others>>

\* "desired_x_ = msg->linear.x"
command_linear ==
  /\ callback.pc = "stamped"
  /\ desired_x_' = callback.x
  /\ callback' = [callback EXCEPT !.pc = "linear"]
  /\ UNCHANGED <<initialized_, last_command_, last_update_, desired_r_,
                 last_sent_x_, last_sent_r_, left_last_position_,
                 right_last_position_, theta_, odom_, track_width_,
                 publish_tf_,
                 nonfinite, joints, clock, last_cycle, phase, ret, tick,
                 outputs, others>>

\* "desired_r_ = msg->angular.z" and "manager_->requestStart(name_)"
command_angular ==
  /\ callback.pc = "linear"
  /\ desired_r_' = callback.r
  /\ phase' = requestStart(start(initialized_, clock, last_command_))
  /\ callback' = [callback EXCEPT !.pc = "idle"]
  /\ ret' = Called("command", TRUE, FALSE)
  /\ UNCHANGED <<initialized_, last_command_, last_update_, desired_x_,
                 last_sent_x_, last_sent_r_, left_last_position_,
                 right_last_position_, theta_, odom_, track_width_,
                 publish_tf_,
                 nonfinite, joints, clock, last_cycle, tick, outputs, others>>

\* -------------------------------------------------------------- preempt()
\* preempt that never looks at the age of the command
preempt_no_timeout(force) ==
  IF last_sent_x_ = 0 /\ last_sent_r_ = 0 THEN TRUE
  ELSE IF force THEN TRUE
  ELSE FALSE

\* preempt that takes one standing axis for "not moving"
preempt_either_axis(force) ==
  IF last_update_ - last_command_ >= timeout_ THEN TRUE
  ELSE IF last_sent_x_ = 0 \/ last_sent_r_ = 0 THEN TRUE
  ELSE IF force THEN TRUE
  ELSE FALSE

\* bool BaseController::preempt(bool force)
preempt(force) ==
  IF last_update_ - last_command_ >= timeout_ THEN TRUE
  ELSE IF last_sent_x_ = 0 /\ last_sent_r_ = 0 THEN TRUE
  ELSE IF force THEN TRUE
  ELSE FALSE

\* The manager stops a running controller that agrees to be preempted.
Preempt(force) ==
  /\ ret' = Called("preempt", preempt(force), force)
  /\ phase' = IF phase = "Running" /\ preempt(force) THEN "Stopped" ELSE phase
  /\ UNCHANGED <<ctrl, joints, clock, last_cycle, threads, outputs, others>>

\* --------------------------------------------------------------- update()
\* limit without the check against the desired value
limit_unclamped(desired, last_sent, max_acceleration, elapsed) ==
  IF desired > last_sent
    THEN last_sent + max_acceleration * elapsed
    ELSE last_sent - max_acceleration * elapsed

\* limit that forgets the elapsed time
limit_unit_step(desired, last_sent, max_acceleration, elapsed) ==
  IF desired > last_sent
    THEN LET sent == last_sent + max_acceleration
         IN  IF sent > desired THEN desired ELSE sent
    ELSE LET sent == last_sent - max_acceleration
         IN  IF sent < desired THEN desired ELSE sent

\* limit that does not limit
limit_jump(desired, last_sent, max_acceleration, elapsed) == desired

\* a timeout check that never fires
timed_out_never(now) == FALSE

\* "See if we have timed out and need to stop"
timed_out(now) == now - last_command_ >= timeout_

\* One axis of "Do velocity acceleration/limiting": the new last_sent value.
limit(desired, last_sent, max_acceleration, elapsed) ==
  IF desired > last_sent
    THEN LET sent == last_sent + max_acceleration * elapsed
         IN  IF sent > desired THEN desired ELSE sent
    ELSE LET sent == last_sent - max_acceleration * elapsed
         IN  IF sent < desired THEN desired ELSE sent

\* setCommand without the conversion to radians
setCommand_unscaled(left, right) ==
  /\ left_' = [left_ EXCEPT !.command = left, !.writes = @ + 1]
  /\ right_' = [right_ EXCEPT !.command = right, !.writes = @ + 1]

\* void BaseController::setCommand(left, right): the joint commands written.
\* A faulty joint rejects the setpoint and keeps the one it has; the code
\* looks at no result of setVelocityCommand.
setCommand(left, right) ==
  /\ left_' = [left_ EXCEPT !.command = IF left_.faulty THEN @
                                        ELSE left * radians_per_meter_,
                            !.writes = @ + 1]
  /\ right_' = [right_ EXCEPT !.command = IF right_.faulty THEN @
                                          ELSE right * radians_per_meter_,
                              !.writes = @ + 1]

\* wheel_velocities with the whole angular velocity times track_width_ taken
\* off and added, not half of it
wheel_velocities_unhalved(sent_x, sent_r) ==
  <<sent_x - sent_r * track_width_, sent_x + sent_r * track_width_>>

\* The wheel velocities (left, right), in velocity units, that update hands
\* to setCommand for the issued twist (sent_x, sent_r).
wheel_velocities(sent_x, sent_r) ==
  <<sent_x - (sent_r * track_width_) \div 2,
    sent_x + (sent_r * track_width_) \div 2>>

\* estimate without the radians_per_meter_ scale
estimate_unscaled(left_velocity, right_velocity) ==
  [vx |-> (left_velocity + right_velocity) \div 2,
   vr |-> (right_velocity - left_velocity) \div track_width_]

\* "Calculate forward and angular velocities": the twist estimate from the
\* joint velocities read in the tick.
estimate(left_velocity, right_velocity) ==
  LET left_vel == left_velocity \div radians_per_meter_
      right_vel == right_velocity \div radians_per_meter_
  IN  [vx |-> (left_vel + right_vel) \div 2,
       vr |-> Quotient(right_vel - left_vel, track_width_)]

\* integrate with the forward difference always added along x
integrate_no_heading(x, y, theta, d, th) ==
  [x |-> x + d, y |-> y, theta |-> theta + th]

\* integrate with the turn taken as (left - right) / track_width_
integrate_turn_reversed(x, y, theta, d, th) ==
  [x |-> x + d * cos(theta), y |-> y + d * sin(theta), theta |-> theta - th]

\* integrate with the heading kept within one full turn
integrate_wrapped(x, y, theta, d, th) ==
  [x |-> x + d * cos(theta), y |-> y + d * sin(theta),
   theta |-> (theta + th) % 4]

\* integrate with the heading turned before the position is advanced
integrate_after_turn(x, y, theta, d, th) ==
  [x |-> x + d * cos(theta + th), y |-> y + d * sin(theta + th),
   theta |-> theta + th]

\* "Update store odometry": position and heading after a tick that measured
\* the forward difference d and the angular difference th.
integrate(x, y, theta, d, th) ==
  [x |-> x + d * cos(theta), y |-> y + d * sin(theta), theta |-> theta + th]

\* bool BaseController::update(now, dt).  The code never reads dt.  It reads
\* each joint position twice, at "Calculate forward and angular differences"
\* and again to keep it as last position; slip = <<left, right>> is how far
\* the joints turned between the two reads (the second read is the joints'
\* present position); stale is what the timeout test of "See if we have
\* timed out and need to stop" found.
update_steps(now, dt, slip, stale) ==
  IF ~initialized_
    THEN /\ ret' = Called("update", FALSE, FALSE)
         /\ UNCHANGED <<ctrl, joints>>
    ELSE
      LET des_x == IF stale THEN 0 ELSE desired_x_
          des_r == IF stale THEN 0 ELSE desired_r_
          sent_x == limit(des_x, last_sent_x_, max_acceleration_x_,
                          now - last_update_)
          sent_r == limit(des_r, last_sent_r_, max_acceleration_r_,
                          now - last_update_)
          left_dx == (left_.position - slip[1] - left_last_position_)
                        \div radians_per_meter_
          right_dx == (right_.position - slip[2] - right_last_position_)
                        \div radians_per_meter_
          d == (left_dx + right_dx) \div 2
          th == Quotient(right_dx - left_dx, track_width_)
          twist == estimate(left_.velocity, right_.velocity)
          wheels == wheel_velocities(sent_x, sent_r)
          pose == integrate(odom_.x, odom_.y, theta_, d, th)
          \* which of these doubles are a NaN or an infinity
          bad_d == \/ "position" \in left_.nan \cup right_.nan
                   \/ "left_last_position_" \in nonfinite
                   \/ "right_last_position_" \in nonfinite
          bad_th == bad_d \/ track_width_ = 0
          nan_dx == "velocity" \in left_.nan \cup right_.nan
          \* (right_vel - left_vel) / 0.0 is a NaN when the velocities are
          \* equal and an infinity when they differ
          nan_dr == nan_dx \/ (track_width_ = 0
                                 /\ left_.velocity = right_.velocity)
          inf_dr == ~nan_dx /\ track_width_ = 0
                            /\ left_.velocity # right_.velocity
          \* fabs(dx) > 0.05 and fabs(dr) > 0.05: false of a NaN
          fast_dx == ~nan_dx /\ Abs(twist.vx) > WriteGate
          fast_dr == inf_dr \/ (~nan_dr /\ Abs(twist.vr) > WriteGate)
      IN  /\ desired_x_' = des_x
          /\ desired_r_' = des_r
          /\ last_sent_x_' = sent_x
          /\ last_sent_r_' = sent_r
          /\ left_last_position_' = left_.position
          /\ right_last_position_' = right_.position
          /\ theta_' = pose.theta
          /\ odom_' = [x |-> pose.x,
                       y |-> pose.y,
                       orientation |-> orientation(pose.theta),
                       vx |-> twist.vx,
                       vr |-> twist.vr,
                       stamp |-> odom_.stamp]
          /\ nonfinite' =
               {c \in {"left_last_position_"} : "position" \in left_.nan}
               \cup {c \in {"right_last_position_"} :
                       "position" \in right_.nan}
               \cup {c \in {"x", "y"} :
                       c \in nonfinite \/ bad_d \/ "theta_" \in nonfinite}
               \cup {c \in {"theta_"} : c \in nonfinite \/ bad_th}
               \cup {c \in {"vx"} : nan_dx}
               \cup {c \in {"vr"} : nan_dr \/ inf_dr}
          /\ IF sent_x # 0 \/ sent_r # 0 \/ fast_dx \/ fast_dr
               THEN setCommand(wheels[1], wheels[2])
               ELSE UNCHANGED joints
          /\ last_update_' = now
          /\ ret' = Called("update", TRUE, FALSE)
          /\ UNCHANGED <<initialized_, last_command_, track_width_,
                         publish_tf_>>

\* update run without interruption: stale is what its timeout test finds
update_reads(now, dt, slip) == update_steps(now, dt, slip, timed_out(now))

\* update when the joints do not turn between its two reads
update(now, dt) == update_reads(now, dt, NoStep)

\* -------------------------------------------------------------- publish()
\* what the transform from the odometry frame to the base frame carries
Transform(msg, time) ==
  [x |-> msg.x, y |-> msg.y, orientation |-> msg.orientation, stamp |-> time]

\* publish that also starts the odometry afresh
publish_resetting(time) ==
  /\ odom_' = [odom_ EXCEPT !.stamp = time, !.x = 0, !.y = 0]
  /\ odom_pub_' = Append(odom_pub_, odom_')
  /\ broadcaster_' = IF publish_tf_
                        THEN Append(broadcaster_, Transform(odom_', time))
                        ELSE broadcaster_
  /\ ret' = Called("publish", TRUE, FALSE)
  /\ UNCHANGED <<initialized_, last_command_, last_update_, desired_x_,
                 desired_r_, last_sent_x_, last_sent_r_,
                 left_last_position_, right_last_position_, theta_,
                 track_width_, publish_tf_, nonfinite, joints, clock,
                 last_cycle, phase, threads, others>>

\* publish that sends the transform whatever publish_tf_ says
publish_always_tf(time) ==
  /\ odom_' = [odom_ EXCEPT !.stamp = time]
  /\ odom_pub_' = Append(odom_pub_, odom_')
  /\ broadcaster_' = Append(broadcaster_, Transform(odom_, time))
  /\ ret' = Called("publish", TRUE, FALSE)
  /\ UNCHANGED <<initialized_, last_command_, last_update_, desired_x_,
                 desired_r_, last_sent_x_, last_sent_r_,
                 left_last_position_, right_last_position_, theta_,
                 track_width_, publish_tf_, nonfinite, joints, clock,
                 last_cycle, phase, threads, others>>

\* bool BaseController::publish(time)
publish(time) ==
  /\ odom_' = [odom_ EXCEPT !.stamp = time]
  /\ odom_pub_' = Append(odom_pub_, odom_')
  /\ broadcaster_' = IF publish_tf_
                        THEN Append(broadcaster_, Transform(odom_, time))
                        ELSE broadcaster_
  /\ ret' = Called("publish", TRUE, FALSE)
  /\ UNCHANGED <<initialized_, last_command_, last_update_, desired_x_,
                 desired_r_, last_sent_x_, last_sent_r_,
                 left_last_position_, right_last_position_, theta_,
                 track_width_, publish_tf_, nonfinite, joints, clock,
                 last_cycle, phase, threads, others>>

\* The owner of the controller publishes its odometry, which it does once
\* init has created the publisher and the broadcaster, at most MaxPublished
\* times in a run.
MaxPublished == 1

Publish ==
  /\ initialized_
  /\ Len(odom_pub_) < MaxPublished
  /\ publish(clock)

\* A caller other than the manager calls update on a controller that the
\* manager does not run.
StrayTick ==
  /\ phase # "Running"
  /\ clock > last_cycle
  /\ update(clock, clock - last_cycle)
  /\ last_cycle' = clock
  /\ UNCHANGED <<clock, phase, threads, outputs, others>>

\* ControllerManager::update(now, dt): every cycle of the control loop
\* updates the running controllers; dt is the time since the previous cycle.
UpdateTick ==
  /\ phase = "Running"
  /\ clock > last_cycle
  /\ update(clock, clock - last_cycle)
  /\ last_cycle' = clock
  /\ UNCHANGED <<clock, phase, threads, outputs, others>>

\* update() as the control thread runs it while the callback thread may run
\* in between: first the timeout test of "See if we have timed out and need
\* to stop" (the read of last_command_) ...
update_test(now, dt) ==
  /\ tick.pc = "idle"
  /\ initialized_
  /\ tick' = [NoTick EXCEPT !.pc = "tested", !.now = now, !.dt = dt,
                            !.stale = timed_out(now)]
  /\ UNCHANGED <<ctrl, joints, ret, callback, outputs, others>>

\* ... then, from "desired_x_ = desired_r_ = 0.0" on, the rest of it.
update_rest ==
  /\ tick.pc = "tested"
  /\ update_steps(tick.now, tick.dt, NoStep, tick.stale)
  /\ tick' = NoTick
  /\ UNCHANGED <<callback, outputs, others>>

\* A cycle of the control loop whose update of the running controller is
\* interleaved with the callback thread.
TickBegins ==
  /\ phase = "Running"
  /\ clock > last_cycle
  /\ update_test(clock, clock - last_cycle)
  /\ last_cycle' = clock
  /\ UNCHANGED <<clock, phase>>

TickEnds ==
  /\ update_rest
  /\ UNCHANGED <<clock, last_cycle, phase>>

\* update() one block of statements at a time, the locals kept in tick.
\* The initialized_ test and "See if we have timed out and need to stop".
update_timeout(now, dt) ==
  /\ tick.pc = "idle"
  /\ initialized_
  /\ tick' = [NoTick EXCEPT !.pc = "gated", !.now = now, !.dt = dt,
                            !.stale = timed_out(now)]
  /\ desired_x_' = IF timed_out(now) THEN 0 ELSE desired_x_
  /\ desired_r_' = IF timed_out(now) THEN 0 ELSE desired_r_
  /\ UNCHANGED <<initialized_, last_command_, last_update_, last_sent_x_,
                 last_sent_r_, left_last_position_, right_last_position_,
                 theta_, odom_, track_width_, publish_tf_, nonfinite,
                 joints, ret, callback, outputs, others>>

\* "Do velocity acceleration/limiting"
update_limit ==
  /\ tick.pc = "gated"
  /\ last_sent_x_' = limit(desired_x_, last_sent_x_, max_acceleration_x_,
                           tick.now - last_update_)
  /\ last_sent_r_' = limit(desired_r_, last_sent_r_, max_acceleration_r_,
                           tick.now - last_update_)
  /\ tick' = [tick EXCEPT !.pc = "limited"]
  /\ UNCHANGED <<initialized_, last_command_, last_update_, desired_x_,
                 desired_r_, left_last_position_, right_last_position_,
                 theta_, odom_, track_width_, publish_tf_, nonfinite,
                 joints, ret, callback, outputs, others>>

\* The reads of the joints: left_dx, right_dx, left_vel, right_vel and the
\* last positions.
update_sample ==
  /\ tick.pc = "limited"
  /\ tick' =
       [tick EXCEPT
          !.pc = "sampled",
          !.left_dx = (left_.position - left_last_position_)
                         \div radians_per_meter_,
          !.right_dx = (right_.position - right_last_position_)
                          \div radians_per_meter_,
          !.left_velocity = left_.velocity,
          !.right_velocity = right_.velocity,
          !.nan =
            {c \in {"left_dx"} :
               \/ "position" \in left_.nan
               \/ "left_last_position_" \in nonfinite}
            \cup {c \in {"right_dx"} :
                    \/ "position" \in right_.nan
                    \/ "right_last_position_" \in nonfinite}
            \cup {c \in {"left_vel"} : "velocity" \in left_.nan}
            \cup {c \in {"right_vel"} : "velocity" \in right_.nan}]
  /\ left_last_position_' = left_.position
  /\ right_last_position_' = right_.position
  /\ nonfinite' =
       (nonfinite \ {"left_last_position_", "right_last_position_"})
       \cup {c \in {"left_last_position_"} : "position" \in left_.nan}
       \cup {c \in {"right_last_position_"} : "position" \in right_.nan}
  /\ UNCHANGED <<initialized_, last_command_, last_update_, desired_x_,
                 desired_r_, last_sent_x_, last_sent_r_, theta_, odom_,
                 track_width_, publish_tf_, joints, ret, callback, outputs,
                 others>>

\* "Calculate forward and angular differences", "Calculate forward and
\* angular velocities" and "Update store odometry"
update_integrate ==
  /\ tick.pc = "sampled"
  /\ LET d == (tick.left_dx + tick.right_dx) \div 2
         th == Quotient(tick.right_dx - tick.left_dx, track_width_)
         twist == estimate(tick.left_velocity, tick.right_velocity)
         pose == integrate(odom_.x, odom_.y, theta_, d, th)
         bad_d == "left_dx" \in tick.nan \/ "right_dx" \in tick.nan
         bad_th == bad_d \/ track_width_ = 0
         nan_dx == "left_vel" \in tick.nan \/ "right_vel" \in tick.nan
         nan_dr == nan_dx \/ (track_width_ = 0
                                /\ tick.left_velocity = tick.right_velocity)
         inf_dr == ~nan_dx /\ track_width_ = 0
                           /\ tick.left_velocity # tick.right_velocity
     IN  /\ tick' = [tick EXCEPT
                       !.pc = "integrated",
                       !.d = d, !.th = th, !.dx = twist.vx, !.dr = twist.vr,
                       !.nan = {c \in {"dx"} : nan_dx}
                               \cup {c \in {"dr"} : nan_dr}
                               \cup {c \in {"inf_dr"} : inf_dr}]
         /\ odom_' = [odom_ EXCEPT !.x = pose.x, !.y = pose.y]
         /\ theta_' = pose.theta
         /\ nonfinite' =
              (nonfinite \ {"x", "y", "theta_"})
              \cup {c \in {"x", "y"} :
                      c \in nonfinite \/ bad_d \/ "theta_" \in nonfinite}
              \cup {c \in {"theta_"} : c \in nonfinite \/ bad_th}
  /\ UNCHANGED <<initialized_, last_command_, last_update_, desired_x_,
                 desired_r_, last_sent_x_, last_sent_r_,
                 left_last_position_, right_last_position_, track_width_,
                 publish_tf_, joints, ret, callback, outputs, others>>

\* the write of the setpoints made right after the ramp, before the joints
\* are read
update_setCommand_early ==
  /\ tick.pc = "limited"
  /\ LET wheels == wheel_velocities(last_sent_x_, last_sent_r_)
     IN  IF last_sent_x_ # 0 \/ last_sent_r_ # 0
           THEN setCommand(wheels[1], wheels[2])
           ELSE UNCHANGED joints
  /\ tick' = [tick EXCEPT !.pc = "commanded"]
  /\ UNCHANGED <<ctrl, ret, callback, outputs, others>>

\* "Actually set command"
update_setCommand ==
  /\ tick.pc = "integrated"
  /\ LET wheels == wheel_velocities(last_sent_x_, last_sent_r_)
         fast_dx == "dx" \notin tick.nan /\ Abs(tick.dx) > WriteGate
         fast_dr == \/ "inf_dr" \in tick.nan
                    \/ "dr" \notin tick.nan /\ Abs(tick.dr) > WriteGate
     IN  IF last_sent_x_ # 0 \/ last_sent_r_ # 0 \/ fast_dx \/ fast_dr
           THEN setCommand(wheels[1], wheels[2])
           ELSE UNCHANGED joints
  /\ tick' = [tick EXCEPT !.pc = "commanded"]
  /\ UNCHANGED <<ctrl, ret, callback, outputs, others>>

\* "Update odometry information", last_update_ = now and return true
update_store ==
  /\ tick.pc = "commanded"
  /\ odom_' = [odom_ EXCEPT !.orientation = orientation(theta_),
                            !.vx = tick.dx, !.vr = tick.dr]
  /\ nonfinite' =
       (nonfinite \ {"vx", "vr"})
       \cup {c \in {"vx"} : "dx" \in tick.nan}
       \cup {c \in {"vr"} : "dr" \in tick.nan \/ "inf_dr" \in tick.nan}
  /\ last_update_' = tick.now
  /\ ret' = Called("update", TRUE, FALSE)
  /\ tick' = NoTick
  /\ UNCHANGED <<initialized_, last_command_, desired_x_, desired_r_,
                 last_sent_x_, last_sent_r_, left_last_position_,
                 right_last_position_, theta_, track_width_, publish_tf_,
                 joints, callback, outputs, others>>

\* A cycle of the control loop that runs update on the running controller
\* one block at a time.
TickStarts ==
  /\ phase = "Running"
  /\ clock > last_cycle
  /\ update_timeout(clock, clock - last_cycle)
  /\ last_cycle' = clock
  /\ UNCHANGED <<clock, phase>>

TickGoesOn(block) ==
  /\ block
  /\ UNCHANGED <<clock, last_cycle, phase>>

\* A cycle of the control loop while the controller is not running.
IdleCycle ==
  /\ phase # "Running"
  /\ clock > last_cycle
  /\ last_cycle' = clock
  /\ ret' = NoCall
  /\ UNCHANGED <<ctrl, joints, clock, phase, threads, outputs, others>>

\* ------------------------------------------------------------ environment
\* One clock unit passes while the wheels turn by step = <<left, right>>.
TimePasses(step) ==
  /\ clock < MaxTime
  /\ clock' = clock + 1
  /\ left_' = [left_ EXCEPT !.position = @ + step[1], !.velocity = step[1],
                            !.writes = 0]
  /\ right_' = [right_ EXCEPT !.position = @ + step[2], !.velocity = step[2],
                              !.writes = 0]
  /\ ret' = NoCall
  /\ UNCHANGED <<ctrl, last_cycle, phase, threads, outputs, others>>

\* A feedback value of a joint starts to read as NaN.
FeedbackFails ==
  /\ \E value \in {"position", "velocity"} :
       \/ /\ value \notin left_.nan
          /\ left_' = [left_ EXCEPT !.nan = @ \cup {value}]
          /\ UNCHANGED right_
       \/ /\ value \notin right_.nan
          /\ right_' = [right_ EXCEPT !.nan = @ \cup {value}]
          /\ UNCHANGED left_
  /\ ret' = NoCall
  /\ UNCHANGED <<ctrl, clock, last_cycle, phase, threads, outputs, others>>

\* A joint starts to reject the setpoints written to it.
ActuatorFails ==
  /\ \/ /\ ~left_.faulty
        /\ left_' = [left_ EXCEPT !.faulty = TRUE]
        /\ UNCHANGED right_
     \/ /\ ~right_.faulty
        /\ right_' = [right_ EXCEPT !.faulty = TRUE]
        /\ UNCHANGED left_
  /\ ret' = NoCall
  /\ UNCHANGED <<ctrl, clock, last_cycle, phase, threads, outputs, others>>

\* ---------------------------------------------------------- specifications
\* stale_ticks after an update tick at the present clock
CountStale ==
  stale_ticks' = IF clock - last_command_ >= timeout_
                   THEN stale_ticks + 1 ELSE 0

\* The controller on a robot whose wheels turn by one of `steps` per clock
\* unit.
Step(steps) ==
  \/ /\ \E m, l, r \in BOOLEAN : init(m, l, r)
     /\ UNCHANGED history
  \/ /\ \E x \in DesiredX, r \in DesiredR : command(x, r)
     /\ stale_ticks' = IF initialized_ THEN 0 ELSE stale_ticks
     /\ UNCHANGED <<ramp, track>>
  \/ /\ Start
     /\ UNCHANGED history
  \/ /\ \E force \in BOOLEAN : Preempt(force)
     /\ UNCHANGED history
  \/ /\ UpdateTick
     /\ CountStale
     /\ UNCHANGED <<ramp, track>>
  \/ /\ IdleCycle
     /\ UNCHANGED history
  \/ /\ \E step \in steps : TimePasses(step)
     /\ UNCHANGED history

\* The wheels stand still.
Next == Step({NoStep})

Spec == Init /\ [][Next]_vars

\* The wheels turn: a controller that initializes, is started by a command
\* and ticks while the robot moves, followed for OdomHorizon clock units.
OdomHorizon == 4

\* track after a successful init
TrackInit ==
  track' = IF initialized_'
             THEN [track EXCEPT !.left_init = left_.position,
                                !.right_init = right_.position,
                                !.left_used = left_.position,
                                !.right_used = right_.position,
                                !.left_sum = 0,
                                !.right_sum = 0]
             ELSE track

\* track after an update tick whose first reads were made slip before the
\* joints' present positions
TrackTick(slip) ==
  LET left_read == left_.position - slip[1]
      right_read == right_.position - slip[2]
      ld == (left_read - left_last_position_) \div radians_per_meter_
      rd == (right_read - right_last_position_) \div radians_per_meter_
      run == IF ld # rd THEN [track EXCEPT !.n = 0]
             ELSE IF track.n > 0 /\ track.d = ld
                    THEN [track EXCEPT !.n = @ + 1]
             ELSE [track EXCEPT !.x0 = odom_.x, !.y0 = odom_.y,
                                !.th0 = theta_, !.n = 1, !.d = ld]
      wrote == left_'.writes > left_.writes
  IN  track' = [run EXCEPT !.left_used = left_read,
                           !.right_used = right_read,
                           !.left_sum = @ + ld,
                           !.right_sum = @ + rd,
                           !.turn_sum = @ + (rd - ld) \div track_width_,
                           !.mixed_x = IF wrote THEN last_sent_x_' ELSE @,
                           !.mixed_r = IF wrote THEN last_sent_r_' ELSE @]

NextOdom ==
  \/ /\ init(TRUE, TRUE, TRUE)
     /\ TrackInit
     /\ UNCHANGED <<stale_ticks, ramp>>
  \/ /\ command(3, 0)
     /\ stale_ticks' = IF initialized_ THEN 0 ELSE stale_ticks
     /\ UNCHANGED <<ramp, track>>
  \/ /\ UpdateTick
     /\ CountStale
     /\ TrackTick(NoStep)
     /\ UNCHANGED ramp
  \/ /\ clock < BootTime + OdomHorizon
     /\ \E step \in WheelSteps \cup {NoStep} : TimePasses(step)
     /\ UNCHANGED history

SpecOdom == Init /\ [][NextOdom]_vars

\* An update tick that made its first position reads before the joints'
\* last turn and its second reads after it.
RacyTick ==
  /\ phase = "Running"
  /\ clock > last_cycle
  /\ <<left_.velocity, right_.velocity>> # NoStep
  /\ update_reads(clock, clock - last_cycle,
                  <<left_.velocity, right_.velocity>>)
  /\ last_cycle' = clock
  /\ UNCHANGED <<clock, phase, threads, outputs, others>>

\* The wheels turn, also between the two position reads of a tick.
NextRace ==
  \/ NextOdom
  \/ /\ RacyTick
     /\ CountStale
     /\ TrackTick(<<left_.velocity, right_.velocity>>)
     /\ UNCHANGED ramp

SpecRace == Init /\ [][NextRace]_vars

\* The wheels follow: in every clock unit each joint turns at the velocity
\* last commanded to it and reports that velocity.
NextFollow ==
  \/ /\ init(TRUE, TRUE, TRUE)
     /\ TrackInit
     /\ UNCHANGED <<stale_ticks, ramp>>
  \/ /\ \E x \in DesiredX, r \in DesiredR : command(x, r)
     /\ stale_ticks' = IF initialized_ THEN 0 ELSE stale_ticks
     /\ UNCHANGED <<ramp, track>>
  \/ /\ UpdateTick
     /\ CountStale
     /\ TrackTick(NoStep)
     /\ UNCHANGED ramp
  \/ /\ clock < BootTime + OdomHorizon
     /\ TimePasses(<<left_.command, right_.command>>)
     /\ UNCHANGED history

SpecFollow == Init /\ [][NextFollow]_vars

\* The command callback runs on a thread of its own: its statements
\* interleave with those of the update ticks of the control thread.
NextThreads ==
  \/ /\ init(TRUE, TRUE, TRUE)
     /\ UNCHANGED history
  \/ /\ \E x \in DesiredX, r \in DesiredR : command_stamp(x, r)
     /\ UNCHANGED history
  \/ /\ command_linear
     /\ UNCHANGED history
  \/ /\ command_angular
     /\ UNCHANGED history
  \/ /\ TickBegins
     /\ UNCHANGED history
  \/ /\ TickEnds
     /\ UNCHANGED history
  \/ /\ TimePasses(NoStep)
     /\ UNCHANGED history

SpecThreads == Init /\ [][NextThreads]_vars

\* Numerical edge cases: the configured track width may be zero, and a
\* feedback value of a joint may start to read as NaN (one in a run).
FaultSteps == {<<2, 2>>, <<-2, 2>>}

NoFault ==
  /\ left_.nan = {} /\ right_.nan = {}
  /\ ~left_.faulty /\ ~right_.faulty

InitNumeric ==
  /\ Constructed
  /\ track_width_ \in {0, TrackWidth}
  /\ publish_tf_ = TRUE
  /\ Elsewhere

NextNumeric ==
  \/ /\ init(TRUE, TRUE, TRUE)
     /\ UNCHANGED history
  \/ /\ command(3, 0)
     /\ UNCHANGED history
  \/ /\ UpdateTick
     /\ UNCHANGED history
  \/ /\ NoFault
     /\ FeedbackFails
     /\ UNCHANGED history
  \/ /\ clock < BootTime + OdomHorizon
     /\ \E step \in FaultSteps \cup {NoStep} : TimePasses(step)
     /\ UNCHANGED history

SpecNumeric == InitNumeric /\ [][NextNumeric]_vars

\* Actuation failures: a joint may start to reject its setpoints (one in a
\* run).
NextRejects ==
  \/ /\ init(TRUE, TRUE, TRUE)
     /\ UNCHANGED history
  \/ /\ \E x \in DesiredX, r \in DesiredR : command(x, r)
     /\ UNCHANGED history
  \/ /\ UpdateTick
     /\ UNCHANGED history
  \/ /\ NoFault
     /\ ActuatorFails
     /\ UNCHANGED history
  \/ /\ clock < BootTime + OdomHorizon
     /\ TimePasses(NoStep)
     /\ UNCHANGED history

SpecRejects == Init /\ [][NextRejects]_vars

\* Every operation of the controller is called, in any order and whether or
\* not init has succeeded, while the robot may be pushed straight ahead.
PushSteps == {<<2, 2>>}
CallHorizon == 2

InitCalls ==
  /\ Constructed
  /\ track_width_ = TrackWidth
  /\ publish_tf_ \in BOOLEAN
  /\ Elsewhere

NextCalls ==
  \/ /\ \E m \in BOOLEAN : init(m, TRUE, TRUE)
     /\ UNCHANGED history
  \/ /\ \E x \in {-3, 3} : command(x, 0)
     /\ UNCHANGED history
  \/ /\ Start
     /\ UNCHANGED history
  \/ /\ \E force \in BOOLEAN : Preempt(force)
     /\ UNCHANGED history
  \/ /\ UpdateTick
     /\ UNCHANGED history
  \/ /\ StrayTick
     /\ UNCHANGED history
  \/ /\ Publish
     /\ UNCHANGED history
  \/ /\ clock < BootTime + CallHorizon
     /\ \E step \in PushSteps \cup {NoStep} : TimePasses(step)
     /\ UNCHANGED history

SpecCalls == InitCalls /\ [][NextCalls]_vars

\* The control loop runs update one block at a time and publishes between
\* two updates, while commands arrive at any time and the robot is pushed
\* ahead or turned between the cycles.
OrderSteps == {<<2, 2>>, <<-2, 2>>}
OrderHorizon == 2

NextOrder ==
  \/ /\ init(TRUE, TRUE, TRUE)
     /\ UNCHANGED history
  \/ /\ \E x \in {0, 3} : command(x, 0)
     /\ UNCHANGED history
  \/ /\ TickStarts
     /\ UNCHANGED history
  \/ /\ TickGoesOn(update_limit)
     /\ UNCHANGED history
  \/ /\ TickGoesOn(update_sample)
     /\ UNCHANGED history
  \/ /\ TickGoesOn(update_integrate)
     /\ UNCHANGED history
  \/ /\ TickGoesOn(update_setCommand)
     /\ UNCHANGED history
  \/ /\ TickGoesOn(update_store)
     /\ UNCHANGED history
  \/ /\ tick.pc = "idle"
     /\ Publish
     /\ UNCHANGED history
  \/ /\ tick.pc = "idle"
     /\ clock < BootTime + OrderHorizon
     /\ \E step \in OrderSteps \cup {NoStep} : TimePasses(step)
     /\ UNCHANGED history

SpecOrder == InitCalls /\ [][NextOrder]_vars

\* The robot turns on the spot while every operation of the controller is
\* called.
TurnSteps == {<<-2, 2>>, <<2, -2>>}

NextTurn ==
  \/ /\ init(TRUE, TRUE, TRUE)
     /\ TrackInit
     /\ UNCHANGED <<stale_ticks, ramp>>
  \/ /\ command(0, 4)
     /\ stale_ticks' = IF initialized_ THEN 0 ELSE stale_ticks
     /\ UNCHANGED <<ramp, track>>
  \/ /\ Start
     /\ UNCHANGED history
  \/ /\ \E force \in BOOLEAN : Preempt(force)
     /\ UNCHANGED history
  \/ /\ UpdateTick
     /\ CountStale
     /\ TrackTick(NoStep)
     /\ UNCHANGED ramp
  \/ /\ IdleCycle
     /\ UNCHANGED history
  \/ /\ clock < BootTime + OdomHorizon
     /\ \E step \in TurnSteps \cup {NoStep} : TimePasses(step)
     /\ UNCHANGED history

SpecTurn == Init /\ [][NextTurn]_vars

\* A run with a fixed period: the controller is running with some issued
\* twist, and from then on every ramp.el clock units the same command arrives
\* again and an update tick follows.  The tick before the run is at most one
\* clock unit old.
MaxElapsed == 2
SentX == -3 .. 3
SentR == -4 .. 4

InitRamp ==
  /\ Elsewhere
  /\ initialized_ = TRUE
  /\ last_command_ = BootTime
  /\ last_update_ \in {BootTime - 1, BootTime}
  /\ desired_x_ \in DesiredX /\ desired_r_ \in DesiredR
  /\ last_sent_x_ \in SentX /\ last_sent_r_ \in SentR
  /\ left_last_position_ = 0 /\ right_last_position_ = 0
  /\ theta_ = 0
  /\ odom_ = [x |-> 0, y |-> 0, orientation |-> 0, vx |-> 0, vr |-> 0,
              stamp |-> 0]
  /\ odom_pub_ = <<>>
  /\ broadcaster_ = <<>>
  /\ left_ = Joint
  /\ right_ = Joint
  /\ clock = BootTime
  /\ last_cycle = BootTime
  /\ phase = "Running"
  /\ ret = NoCall
  /\ callback = NoMessage
  /\ tick = NoTick
  /\ nonfinite = {}
  /\ track_width_ = TrackWidth
  /\ publish_tf_ = TRUE
  /\ stale_ticks = 0
  /\ \E el \in 1 .. MaxElapsed :
       ramp = [from_x |-> last_sent_x_, from_r |-> last_sent_r_, el |-> el,
               wait |-> el, ticks |-> 0]
  /\ track = NoTrack

NextRamp ==
  \/ /\ ramp.wait > 0
     /\ TimePasses(NoStep)
     /\ ramp' = [ramp EXCEPT !.wait = @ - 1]
     /\ UNCHANGED <<stale_ticks, track>>
  \/ /\ ramp.wait = 0
     /\ last_command_ # clock
     /\ command(desired_x_, desired_r_)
     /\ UNCHANGED history
  \/ /\ ramp.wait = 0
     /\ last_command_ = clock
     /\ UpdateTick
     /\ CountStale
     /\ ramp' = [ramp EXCEPT !.wait = ramp.el, !.ticks = @ + 1]
     /\ UNCHANGED track

SpecRamp == InitRamp /\ [][NextRamp]_vars

\* ------------------------------------------------- lama_jockeys: Jockey
\* void Jockey::initAction()
initAction ==
  /\ start_time_' = clock
  /\ interrupted_' = FALSE
  /\ interruption_time_' = 0
  /\ resume_time_' = 0
  /\ interruptions_duration_' = 0

\* interrupt that takes the time of every call, interrupted already or not
interrupt_restamping ==
  /\ interrupted_' = TRUE
  /\ interruption_time_' = clock
  /\ UNCHANGED <<start_time_, resume_time_, interruptions_duration_>>

\* void Jockey::interrupt()
interrupt ==
  IF ~interrupted_
    THEN /\ interrupted_' = TRUE
         /\ interruption_time_' = clock
         /\ UNCHANGED <<start_time_, resume_time_, interruptions_duration_>>
    ELSE UNCHANGED <<start_time_, interrupted_, interruption_time_,
                     resume_time_, interruptions_duration_>>

\* resume that adds to the duration whether interrupted or not
resume_unguarded ==
  /\ interrupted_' = FALSE
  /\ resume_time_' = clock
  /\ interruptions_duration_' =
       interruptions_duration_ + (clock - interruption_time_)
  /\ UNCHANGED <<start_time_, interruption_time_>>

\* void Jockey::resume()
resume ==
  IF interrupted_
    THEN /\ interrupted_' = FALSE
         /\ resume_time_' = clock
         /\ interruptions_duration_' =
              interruptions_duration_ + (clock - interruption_time_)
         /\ UNCHANGED <<start_time_, interruption_time_>>
    ELSE UNCHANGED <<start_time_, interrupted_, interruption_time_,
                     resume_time_, interruptions_duration_>>

\* ros::Duration Jockey::getCompletionDuration() const
getCompletionDuration == clock - start_time_ - interruptions_duration_

\* void NavigatingJockey::initAction()
NavigatingJockey_initAction ==
  /\ initAction
  /\ result_' = "NavigateResult()"

\* void NavigatingJockey::goalCallback(goal); preempted is what
\* server_.isPreemptRequested() || !ros::ok() finds.  onStop and onTraverse
\* are for the jockeys derived from this one; onInterrupt and onContinue
\* only log.
goalCallback(goal, preempted) ==
  IF preempted
    THEN /\ goal_' = [goal_ EXCEPT !.action = goal.action]
         /\ server_' = "preempted"
         /\ UNCHANGED <<start_time_, interrupted_, interruption_time_,
                        resume_time_, interruptions_duration_, result_>>
    ELSE
      /\ UNCHANGED server_
      /\ CASE goal.action = "STOP" ->
                /\ NavigatingJockey_initAction
                /\ goal_' = [action |-> goal.action, edge |-> 0]
           [] goal.action = "TRAVERSE" ->
                /\ NavigatingJockey_initAction
                /\ goal_' = goal
           [] goal.action = "INTERRUPT" ->
                /\ interrupt
                /\ goal_' = [goal_ EXCEPT !.action = goal.action]
                /\ UNCHANGED result_
           [] goal.action = "CONTINUE" ->
                /\ resume
                /\ goal_' = [goal_ EXCEPT !.action = goal.action]
                /\ UNCHANGED result_

\* The jockey as its constructor leaves it: the times and the duration are
\* zero, interrupted_ has been given no value, no action was initialised.
JockeyConstructed ==
  /\ start_time_ = 0
  /\ interrupted_ \in BOOLEAN
  /\ interruption_time_ = 0
  /\ resume_time_ = 0
  /\ interruptions_duration_ = 0
  /\ goal_ = NoGoal
  /\ result_ = "NavigateResult()"
  /\ server_ = "idle"
  /\ episode = [NoEpisode EXCEPT !.init = FALSE]

InitJockey ==
  /\ Constructed
  /\ track_width_ = TrackWidth
  /\ publish_tf_ = TRUE
  /\ JockeyConstructed
  /\ ArmConstructed

\* episode after the call the goal leads to: whether initAction has run,
\* whether an interruption is open and since when (the first interrupt call
\* since the last resume), and the sum of resume time - interruption time
\* over the interruptions closed since initAction.
Goals == [action : {"STOP", "TRAVERSE", "INTERRUPT", "CONTINUE"},
          edge : {1}]
JockeyHorizon == 4

Noted(goal, preempted) ==
  IF preempted THEN [episode EXCEPT !.call = "none"]
  ELSE CASE goal.action \in {"STOP", "TRAVERSE"} ->
              [NoEpisode EXCEPT !.call = "initAction"]
         [] goal.action = "INTERRUPT" ->
              [episode EXCEPT !.call = "interrupt",
                              !.open = TRUE,
                              !.first = IF episode.open THEN @ ELSE clock]
         [] goal.action = "CONTINUE" ->
              [episode EXCEPT !.call = "resume",
                              !.open = FALSE,
                              !.sum = IF episode.open
                                        THEN @ + (clock - episode.first)
                                        ELSE @]

\* The action server hands a goal to the jockey.
GoalArrives ==
  \E goal \in Goals, preempted \in BOOLEAN :
    /\ goalCallback(goal, preempted)
    /\ episode' = Noted(goal, preempted)
    /\ UNCHANGED <<base, clock, arm>>

JockeyTimePasses ==
  /\ clock < BootTime + JockeyHorizon
  /\ clock' = clock + 1
  /\ UNCHANGED <<base, others>>

NextJockey ==
  \/ GoalArrives
  \/ JockeyTimePasses

SpecJockey == InitJockey /\ [][NextJockey]_vars

\* ---------------------------------------------------- kinova: JacoArm
\* the joint_angular_vel_timeout and cartesian_vel_timeout parameters as the
\* constructor loads them into the timeouts and into the timer periods, in
\* clock units
joint_vel_timeout_seconds_ == 2
cartesian_vel_timeout_seconds_ == 2
joint_vel_interval_seconds_ == 1
cartesian_vel_interval_seconds_ == 1

\* ros::Timer::start() with the given period: a stopped timer is due one
\* period from now, a started one is left alone
Started(timer, period) ==
  IF timer.started THEN timer
  ELSE [started |-> TRUE, due |-> clock + period]
\* ros::Timer::stop()
Stopped(timer) == [timer EXCEPT !.started = FALSE]
\* a started timer after its callback has returned: due one period from now
Rescheduled(timer, period) == [timer EXCEPT !.due = clock + period]

\* void JacoArm::jointVelocityCallback(joint_vel)
jointVelocityCallback(joint_vel) ==
  IF ~jaco_comm_.stopped
    THEN /\ joint_velocities_' = joint_vel
         /\ last_joint_vel_cmd_time_' = clock
         /\ IF joint_vel_timer_flag_ = FALSE
              THEN /\ joint_vel_timer_' =
                        Started(joint_vel_timer_, joint_vel_interval_seconds_)
                   /\ joint_vel_timer_flag_' = TRUE
              ELSE UNCHANGED <<joint_vel_timer_, joint_vel_timer_flag_>>
         /\ UNCHANGED <<cartesian_velocities_, last_cartesian_vel_cmd_time_,
                        cartesian_vel_timer_, cartesian_vel_timer_flag_,
                        jaco_comm_>>
    ELSE UNCHANGED arm

\* void JacoArm::cartesianVelocityCallback(cartesian_vel)
cartesianVelocityCallback(cartesian_vel) ==
  IF ~jaco_comm_.stopped
    THEN /\ cartesian_velocities_' = cartesian_vel
         /\ last_cartesian_vel_cmd_time_' = clock
         /\ IF cartesian_vel_timer_flag_ = FALSE
              THEN /\ cartesian_vel_timer_' =
                        Started(cartesian_vel_timer_,
                                cartesian_vel_interval_seconds_)
                   /\ cartesian_vel_timer_flag_' = TRUE
              ELSE UNCHANGED <<cartesian_vel_timer_,
                               cartesian_vel_timer_flag_>>
         /\ UNCHANGED <<joint_velocities_, last_joint_vel_cmd_time_,
                        joint_vel_timer_, joint_vel_timer_flag_, jaco_comm_>>
    ELSE UNCHANGED arm

\* jointVelocityTimer that stops the timer and leaves the flag set
jointVelocityTimer_flag_kept ==
  LET elapsed_time_seconds == clock - last_joint_vel_cmd_time_
  IN  /\ IF elapsed_time_seconds > joint_vel_timeout_seconds_
            THEN /\ joint_vel_timer_' = Stopped(joint_vel_timer_)
                 /\ UNCHANGED jaco_comm_
            ELSE /\ jaco_comm_' =
                      [jaco_comm_ EXCEPT !.joint = Append(@, joint_velocities_)]
                 /\ joint_vel_timer_' =
                      Rescheduled(joint_vel_timer_,
                                  joint_vel_interval_seconds_)
      /\ UNCHANGED <<joint_velocities_, last_joint_vel_cmd_time_,
                     joint_vel_timer_flag_,
                     cartesian_velocities_, last_cartesian_vel_cmd_time_,
                     cartesian_vel_timer_, cartesian_vel_timer_flag_>>

\* jointVelocityTimer that sends the velocities however old the command is
jointVelocityTimer_no_timeout ==
  /\ jaco_comm_' = [jaco_comm_ EXCEPT !.joint = Append(@, joint_velocities_)]
  /\ joint_vel_timer_' =
       Rescheduled(joint_vel_timer_, joint_vel_interval_seconds_)
  /\ UNCHANGED <<joint_velocities_, last_joint_vel_cmd_time_,
                 joint_vel_timer_flag_,
                 cartesian_velocities_, last_cartesian_vel_cmd_time_,
                 cartesian_vel_timer_, cartesian_vel_timer_flag_>>

\* void JacoArm::jointVelocityTimer(event)
jointVelocityTimer ==
  LET elapsed_time_seconds == clock - last_joint_vel_cmd_time_
  IN  /\ IF elapsed_time_seconds > joint_vel_timeout_seconds_
            THEN /\ joint_vel_timer_' = Stopped(joint_vel_timer_)
                 /\ joint_vel_timer_flag_' = FALSE
                 /\ UNCHANGED jaco_comm_
            ELSE /\ jaco_comm_' =
                      [jaco_comm_ EXCEPT !.joint = Append(@, joint_velocities_)]
                 /\ joint_vel_timer_' =
                      Rescheduled(joint_vel_timer_,
                                  joint_vel_interval_seconds_)
                 /\ UNCHANGED joint_vel_timer_flag_
      /\ UNCHANGED <<joint_velocities_, last_joint_vel_cmd_time_,
                     cartesian_velocities_, last_cartesian_vel_cmd_time_,
                     cartesian_vel_timer_, cartesian_vel_timer_flag_>>

\* void JacoArm::cartesianVelocityTimer(event)
cartesianVelocityTimer ==
  LET elapsed_time_seconds == clock - last_cartesian_vel_cmd_time_
  IN  /\ IF elapsed_time_seconds > cartesian_vel_timeout_seconds_
            THEN /\ cartesian_vel_timer_' = Stopped(cartesian_vel_timer_)
                 /\ cartesian_vel_timer_flag_' = FALSE
                 /\ UNCHANGED jaco_comm_
            ELSE /\ jaco_comm_' =
                      [jaco_comm_ EXCEPT
                         !.cartesian = Append(@, cartesian_velocities_)]
                 /\ cartesian_vel_timer_' =
                      Rescheduled(cartesian_vel_timer_,
                                  cartesian_vel_interval_seconds_)
                 /\ UNCHANGED cartesian_vel_timer_flag_
      /\ UNCHANGED <<joint_velocities_, last_joint_vel_cmd_time_,
                     joint_vel_timer_, joint_vel_timer_flag_,
                     cartesian_velocities_, last_cartesian_vel_cmd_time_>>

\* bool JacoArm::stopServiceCallback(req, res): jaco_comm_.stopAPI()
stopServiceCallback ==
  /\ jaco_comm_' = [jaco_comm_ EXCEPT !.stopped = TRUE]
  /\ UNCHANGED <<joint_velocities_, last_joint_vel_cmd_time_,
                 joint_vel_timer_, joint_vel_timer_flag_,
                 cartesian_velocities_, last_cartesian_vel_cmd_time_,
                 cartesian_vel_timer_, cartesian_vel_timer_flag_>>

\* bool JacoArm::startServiceCallback(req, res): jaco_comm_.startAPI()
startServiceCallback ==
  /\ jaco_comm_' = [jaco_comm_ EXCEPT !.stopped = FALSE]
  /\ UNCHANGED <<joint_velocities_, last_joint_vel_cmd_time_,
                 joint_vel_timer_, joint_vel_timer_flag_,
                 cartesian_velocities_, last_cartesian_vel_cmd_time_,
                 cartesian_vel_timer_, cartesian_vel_timer_flag_>>

\* The node's single spinner thread calls the callbacks one at a time:
\* velocity messages, service requests and the timers that are started and
\* due.
Velocities == {1, 2}
ArmHorizon == 3
elsewhere == <<base, clock, jockey, episode>>

JointVelocityArrives ==
  /\ \E joint_vel \in Velocities : jointVelocityCallback(joint_vel)
  /\ UNCHANGED elsewhere

CartesianVelocityArrives ==
  /\ \E cartesian_vel \in Velocities :
       cartesianVelocityCallback(cartesian_vel)
  /\ UNCHANGED elsewhere

JointTimerFires ==
  /\ joint_vel_timer_.started
  /\ clock >= joint_vel_timer_.due
  /\ jointVelocityTimer
  /\ UNCHANGED elsewhere

CartesianTimerFires ==
  /\ cartesian_vel_timer_.started
  /\ clock >= cartesian_vel_timer_.due
  /\ cartesianVelocityTimer
  /\ UNCHANGED elsewhere

StopRequested ==
  /\ stopServiceCallback
  /\ UNCHANGED elsewhere

StartRequested ==
  /\ startServiceCallback
  /\ UNCHANGED elsewhere

ArmTimePasses ==
  /\ clock < BootTime + ArmHorizon
  /\ clock' = clock + 1
  /\ UNCHANGED <<base, others>>

NextArm ==
  \/ JointVelocityArrives
  \/ CartesianVelocityArrives
  \/ JointTimerFires
  \/ CartesianTimerFires
  \/ StopRequested
  \/ StartRequested
  \/ ArmTimePasses

SpecArm == Init /\ [][NextArm]_vars

\* ------------------------------------------------------------------ claims
\* A step that is one update tick which returned true.
Updated == ret'.op = "update" /\ ret'.val
\* what the tick did to an axis: from `sent` to `sent2`, aiming at `desired`,
\* with at most `most` of change allowed
MovedToward(sent, sent2, desired, most) ==
  /\ Abs(sent2 - sent) = Min(Abs(desired - sent), most)
  /\ Between(sent, sent2, desired)

\* C1: on every update tick each axis of the issued twist moves toward the
\* desired value of that tick by exactly min(|desired - issued|,
\* max_acceleration * elapsed), elapsed being the time since the last update:
\* never away from it and never across it; the new value of an axis is a
\* function of that axis' own desired value, issued value and acceleration.
C1_RampStep ==
  [][Updated =>
       /\ MovedToward(last_sent_x_, last_sent_x_', desired_x_',
                      max_acceleration_x_ * (clock - last_update_))
       /\ MovedToward(last_sent_r_, last_sent_r_', desired_r_',
                      max_acceleration_r_ * (clock - last_update_))]_vars

\* C1 witness: a tick after which the linear axis has reached its desired
\* value while the angular axis is still ramping.
C1_Witness ==
  /\ ret.op = "update"
  /\ last_sent_x_ = 3 /\ desired_x_ = 3
  /\ last_sent_r_ = 3 /\ desired_r_ = 4

\* C2: on every update tick the change of each axis of the issued twist is at
\* most max_acceleration times the dt handed to update (the time since the
\* manager's previous cycle).
C2_BoundedByDt ==
  [][Updated =>
       /\ Abs(last_sent_x_' - last_sent_x_)
            <= max_acceleration_x_ * (clock - last_cycle)
       /\ Abs(last_sent_r_' - last_sent_r_)
            <= max_acceleration_r_ * (clock - last_cycle)]_vars

\* A command has been received (and stored) at some time.
Received == last_command_ # 0
\* The issued twist is zero on both axes.
Standing == last_sent_x_ = 0 /\ last_sent_r_ = 0

\* C4 as claimed: after a command received at t0, preempt(false) called at
\* time t returns true if t >= t0 + timeout and false if t < t0 + timeout.
C4_PreemptByCallTime ==
  (ret.op = "preempt" /\ ~ret.force /\ Received)
    => (ret.val <=> clock - last_command_ >= timeout_)

\* C4 amended: after a command received at t0, preempt(false) returns true
\* whenever the last update tick (or init, if no tick ran since) happened at
\* or after t0 + timeout, whatever the time of the call; when it happened
\* before t0 + timeout, preempt(false) returns false if some axis of the
\* issued twist is non-zero and true if the issued twist is zero.
C4_PreemptByUpdateTime ==
  (ret.op = "preempt" /\ ~ret.force /\ Received) =>
    /\ last_update_ >= last_command_ + timeout_ => ret.val
    /\ last_update_ < last_command_ + timeout_ => (ret.val <=> Standing)

\* C4 witness: preempt(false) refused although the command has timed out by
\* the clock, because no update tick has seen the timeout yet.
C4_Witness ==
  /\ ret.op = "preempt" /\ ~ret.force /\ ~ret.val
  /\ Received
  /\ clock - last_command_ >= timeout_
  /\ last_update_ - last_command_ = timeout_ - 1

C6_RestartAlwaysSucceeds ==
  [][phase = "Running" /\ ret'.op = "start"
       => ret'.val /\ UNCHANGED <<ctrl, joints, phase>>]_vars

\* C6 amended: start() while Running changes nothing (phase, command, issued
\* twist, pose), and returns true exactly when now - last_command_ < timeout_:
\* it returns false while a timed-out command is being ramped down.
C6_RestartNoEffect ==
  [][phase = "Running" /\ ret'.op = "start"
       => /\ UNCHANGED <<ctrl, joints, phase>>
          /\ ret'.val <=> clock - last_command_ < timeout_]_vars

\* C6 witness: a start refused while Running, with the timed-out command
\* being ramped down.
C6_Witness ==
  /\ ret.op = "start" /\ ~ret.val
  /\ phase = "Running"
  /\ stale_ticks > 0 /\ ~Standing

\* C7 as claimed: preempt(force) returns true iff now - last_command_ >=
\* timeout_, or the issued twist is zero on both axes, or force is set.
C7_PreemptIffByNow ==
  ret.op = "preempt" =>
    (ret.val <=> \/ clock - last_command_ >= timeout_
                 \/ Standing
                 \/ ret.force)

\* C7 amended: preempt(force) returns true iff (a) last_update_ -
\* last_command_ >= timeout_, last_update_ being the time of the last update
\* tick (of init before the first tick), not the time of the call, or (b) the
\* issued twist is zero on both axes, or (c) force is set.
C7_PreemptIff ==
  ret.op = "preempt" =>
    (ret.val <=> \/ last_update_ - last_command_ >= timeout_
                 \/ Standing
                 \/ ret.force)

\* C7 witness: preempt(false) refused with a fresh command and exactly one
\* axis of the issued twist at zero.
C7_Witness ==
  /\ ret.op = "preempt" /\ ~ret.force /\ ~ret.val
  /\ last_sent_x_ # 0 /\ last_sent_r_ = 0
  /\ clock - last_command_ < timeout_

\* C3: with the desired twist fixed and fresh and a fixed elapsed time el
\* between ticks, after every tick each axis lies between its starting value
\* and the desired value, and from tick number
\* ceil(|desired - start| / (max_acceleration * el)) on it equals the desired
\* value.
TicksNeeded(from, desired, max_acceleration) ==
  CeilDiv(Abs(desired - from), max_acceleration * ramp.el)

C3_RampConverges ==
  /\ Between(ramp.from_x, last_sent_x_, desired_x_)
  /\ Between(ramp.from_r, last_sent_r_, desired_r_)
  /\ ramp.ticks >= TicksNeeded(ramp.from_x, desired_x_, max_acceleration_x_)
       => last_sent_x_ = desired_x_
  /\ ramp.ticks >= TicksNeeded(ramp.from_r, desired_r_, max_acceleration_r_)
       => last_sent_r_ = desired_r_

\* C3 witness: the linear axis went from -3 to 3 in unit periods and arrived
\* there on the third tick, having been short of it after the second.
C3_Witness ==
  /\ ramp.el = 1 /\ ramp.from_x = -3 /\ desired_x_ = 3
  /\ ramp.ticks = 3 /\ ret.op = "update"
  /\ last_sent_x_ = 3

\* what a tick that saw the timeout may do to an axis
TowardZero(sent, sent2, most) ==
  /\ Abs(sent2 - sent) <= most
  /\ Between(sent, sent2, 0)
  /\ sent2 = 0 => Abs(sent) <= most

\* C8: an update tick with now - last_command_ >= timeout_ uses the desired
\* twist (0, 0), moves each axis of the issued twist toward zero by at most
\* max_acceleration * elapsed (reaching zero only from within one such step),
\* and returns true.
C8_TimeoutRampsDown ==
  [][ret'.op = "update" /\ clock - last_command_ >= timeout_ =>
       /\ ret'.val
       /\ desired_x_' = 0 /\ desired_r_' = 0
       /\ TowardZero(last_sent_x_, last_sent_x_',
                     max_acceleration_x_ * (clock - last_update_))
       /\ TowardZero(last_sent_r_, last_sent_r_',
                     max_acceleration_r_ * (clock - last_update_))]_vars

\* C8 witness: the first tick that saw the timeout left the linear axis
\* still moving.
C8_Witness ==
  /\ ret.op = "update" /\ ret.val
  /\ stale_ticks = 1
  /\ desired_x_ = 0 /\ last_sent_x_ = 1

\* the largest magnitude in a set of velocities
MaxAbs(S) == CHOOSE m \in {Abs(v) : v \in S} : \A v \in S : Abs(v) <= m
\* update ticks that bring any issued twist to zero, time passing between them
StopTicks ==
  LET nx == CeilDiv(MaxAbs(DesiredX), max_acceleration_x_)
      nr == CeilDiv(MaxAbs(DesiredR), max_acceleration_r_)
  IN  IF nx > nr THEN nx ELSE nr

\* C9: once no further command arrives, the update ticks that keep occurring
\* see the timeout; from the StopTicks-th such tick on the issued twist is
\* (0, 0), and it stays (0, 0) on every later tick until a command arrives.
C9_StaleStops == stale_ticks >= StopTicks => Standing

\* C9 witness: the issued twist reached zero on the StopTicks-th tick that saw
\* the timeout, the joints still holding the setpoint of the tick before.
C9_Witness ==
  /\ ret.op = "update"
  /\ stale_ticks = StopTicks
  /\ Standing
  /\ left_.command # 0

\* C10: an update tick takes the wheel displacements as the joint position
\* deltas since the last tick divided by radians_per_meter_, forward as their
\* mean and turn as (right - left) / track_width_; it adds forward * cos and
\* forward * sin of the heading held before the tick to x and y, and then adds
\* turn to the heading.  (Stated with the divisions multiplied out.)
C10_PoseUpdate ==
  [][Updated =>
       LET left_delta == left_.position - left_last_position_
           right_delta == right_.position - right_last_position_
       IN  /\ 2 * radians_per_meter_ * (odom_'.x - odom_.x)
                = (left_delta + right_delta) * cos(theta_)
           /\ 2 * radians_per_meter_ * (odom_'.y - odom_.y)
                = (left_delta + right_delta) * sin(theta_)
           /\ radians_per_meter_ * track_width_ * (theta_' - theta_)
                = right_delta - left_delta]_vars

\* C10 witness: after a quarter turn on the spot, a tick that pivoted about
\* the left wheel moved the robot along y (the heading before the tick) and
\* left the heading at a half turn.
C10_Witness ==
  /\ ret.op = "update"
  /\ odom_.x = 0 /\ odom_.y = 1
  /\ theta_ = 2

\* C11: while every tick measures the same displacement d on both wheels, the
\* pose after N such ticks is the pose before them moved by N * d along the
\* heading held before them: x = x0 + N * d * cos(theta0),
\* y = y0 + N * d * sin(theta0), and the heading is still theta0.
C11_StraightLine ==
  track.n > 0 =>
    /\ odom_.x = track.x0 + track.n * track.d * cos(track.th0)
    /\ odom_.y = track.y0 + track.n * track.d * sin(track.th0)
    /\ theta_ = track.th0

\* C11 witness: two ticks in a row measured the same non-zero displacement on
\* both wheels after the robot had turned a quarter turn.
C11_Witness ==
  /\ ret.op = "update"
  /\ track.n = 2 /\ track.d # 0
  /\ track.th0 = 1
  /\ odom_.y = track.y0 + 2 * track.d

\* The displacements an update tick measures on the left and the right wheel.
leftDisplacement ==
  (left_.position - left_last_position_) \div radians_per_meter_
rightDisplacement ==
  (right_.position - right_last_position_) \div radians_per_meter_

\* C12 as stated: a tick that measures d on the left wheel and -d on the
\* right wheel leaves x and y unchanged and increases the heading by
\* 2 * d / track_width_.
C12_PureRotationIncreases ==
  [][Updated /\ leftDisplacement = -rightDisplacement =>
       /\ odom_'.x = odom_.x /\ odom_'.y = odom_.y
       /\ track_width_ * (theta_' - theta_) = 2 * leftDisplacement]_vars

\* C12 amended: a tick that measures d on the left wheel and -d on the right
\* wheel leaves x and y unchanged and changes the heading by
\* -2 * d / track_width_ (a decrease when the left wheel ran forward).
C12_PureRotation ==
  [][Updated /\ leftDisplacement = -rightDisplacement =>
       /\ odom_'.x = odom_.x /\ odom_'.y = odom_.y
       /\ track_width_ * (theta_' - theta_) = -2 * leftDisplacement]_vars

\* C12 witness: the only tick so far followed a clock unit in which the left
\* wheel ran forward and the right wheel backward by the same amount; the
\* position is where it was and the heading went down a quarter turn.
C12_Witness ==
  /\ ret.op = "update"
  /\ left_.velocity = 2 /\ right_.velocity = -2
  /\ track.left_sum = 1 /\ track.right_sum = -1
  /\ odom_.x = 0 /\ odom_.y = 0
  /\ theta_ = -1

\* C13: no wheel motion is skipped or counted twice, also when a joint turns
\* between the position reads of one tick: the position kept as last position
\* is the one the last tick's displacement was computed from, and for each
\* wheel the displacements of all ticks since init add up to
\* (position used in the latest tick - position captured at init)
\* / radians_per_meter_.
C13_NoMotionLost ==
  initialized_ =>
    /\ left_last_position_ = track.left_used
    /\ right_last_position_ = track.right_used
    /\ radians_per_meter_ * track.left_sum = track.left_used - track.left_init
    /\ radians_per_meter_ * track.right_sum
         = track.right_used - track.right_init

\* C14: the stored heading is never wrapped or normalized: it is always the
\* plain sum of the turns of all ticks since construction (and so can exceed
\* a half turn), and no step other than an update tick changes it.
C14_HeadingIsSumOfTurns ==
  /\ [](theta_ = track.turn_sum)
  /\ [][theta_' # theta_ => Updated]_vars

\* C14 witness: after ticks the heading is a full turn away from zero, beyond
\* a half turn (pi) in magnitude, and start or preempt has just been called.
C14_Witness ==
  /\ ret.op \in {"start", "preempt"}
  /\ Abs(theta_) >= 4
  /\ theta_ = track.turn_sum

\* C15: the twist estimate stored by an update tick is
\* vx = (left velocity + right velocity) / (2 * radians_per_meter_) and
\* vr = (right velocity - left velocity) / (radians_per_meter_ * track_width_)
\* of the joint velocities sampled on that tick, whatever the pose, the
\* command, the issued twist and the twist stored before.  (Stated with the
\* divisions multiplied out.)
C15_TwistEstimate ==
  ret.op = "update" /\ ret.val =>
    /\ 2 * radians_per_meter_ * odom_.vx = left_.velocity + right_.velocity
    /\ radians_per_meter_ * track_width_ * odom_.vr
         = right_.velocity - left_.velocity

\* C15 witness: a tick sampled a standing left wheel and a right wheel at
\* 4 rad per clock unit while the stored pose and issued twist were non-zero.
C15_Witness ==
  /\ ret.op = "update" /\ ret.val
  /\ left_.velocity = 0 /\ right_.velocity = 4
  /\ odom_.vx = 1 /\ odom_.vr = 1
  /\ odom_.x # 0 /\ theta_ # 0
  /\ last_sent_x_ # 0

\* C16: whenever an update tick writes to the joints, the left setpoint is
\* (issued x - issued r / 2 * track_width_) * radians_per_meter_ and the right
\* setpoint is (issued x + issued r / 2 * track_width_) * radians_per_meter_,
\* for the twist issued by that tick, each joint being written once.
\* (Stated with the division by 2 multiplied out.)
C16_Setpoints ==
  ret.op = "update" /\ (left_.writes > 0 \/ right_.writes > 0) =>
    /\ left_.writes = 1 /\ right_.writes = 1
    /\ 2 * left_.command
         = (2 * last_sent_x_ - last_sent_r_ * track_width_)
             * radians_per_meter_
    /\ 2 * right_.command
         = (2 * last_sent_x_ + last_sent_r_ * track_width_)
             * radians_per_meter_

\* C16 witness: a tick issued the twist (2, 3) in the middle of a ramp and
\* wrote the setpoints -2 and 10.
C16_Witness ==
  /\ ret.op = "update"
  /\ last_sent_x_ = 2 /\ last_sent_r_ = 3
  /\ left_.writes = 1
  /\ left_.command = -2 /\ right_.command = 10

\* C17: mixing is inverted by the twist estimate: on a tick where the joints
\* report as their velocities exactly the setpoints last written, the twist
\* that update measures is the issued twist those setpoints were mixed from.
C17_MixerInverse ==
  [][Updated /\ left_.velocity = left_.command
             /\ right_.velocity = right_.command =>
       /\ odom_'.vx = track.mixed_x
       /\ odom_'.vr = track.mixed_r]_vars

\* C17 witness: the joints reported the setpoints -2 and 10 written for the
\* issued twist (2, 3), and the tick measured the twist (2, 3).
C17_Witness ==
  /\ ret.op = "update"
  /\ left_.velocity = -2 /\ right_.velocity = 10
  /\ odom_.vx = 2 /\ odom_.vr = 3

\* C18: an update tick skips the write to the joints only when every axis of
\* the issued twist and of the measured twist is within moving_threshold_ of
\* zero: after a tick on which some axis of either exceeds moving_threshold_
\* in magnitude, each joint has been written once.
C18_WriteUnlessIdle ==
  /\ ret.op = "update" /\ ret.val
  /\ \/ Abs(last_sent_x_) > moving_threshold_
     \/ Abs(last_sent_r_) > moving_threshold_
     \/ Abs(odom_.vx) > moving_threshold_
     \/ Abs(odom_.vr) > moving_threshold_
  => left_.writes = 1 /\ right_.writes = 1

\* C19: the stored command (desired linear velocity, desired angular
\* velocity, arrival time) is written by the command callback only: no update
\* tick, start or preempt changes any of the three.
C19_CommandOnlyWrittenByCallback ==
  [][ret'.op \in {"update", "start", "preempt"} =>
       UNCHANGED <<desired_x_, desired_r_, last_command_>>]_vars

\* C20: with the command callback on a thread of its own, an update tick
\* never acts on a half-written command: when it runs while the callback has
\* stored the arrival time of a message, the desired velocities it reads are
\* those of that message too (never the new time with an old desired value).
C20_NoTornCommand ==
  [][Updated /\ callback.pc # "idle" =>
       /\ desired_x_ = callback.x
       /\ desired_r_ = callback.r]_vars

\* C21: init returns failure and leaves the controller uninitialized when
\* the manager or either joint handle is missing; it returns success, with
\* the controller initialized, exactly when all of them are present.
C21_InitResult ==
  [][\A m, l, r \in BOOLEAN :
       init(m, l, r) =>
         /\ ret'.val = (m /\ l /\ r)
         /\ initialized_' = (m /\ l /\ r)
         /\ ~(m /\ l /\ r) => phase' = "Uninitialized"]_vars

\* C21 witness: an init that lacked something has returned failure and the
\* controller is uninitialized.
C21_Witness ==
  /\ ret = Called("init", FALSE, FALSE)
  /\ ~initialized_
  /\ phase = "Uninitialized"

\* C22: init refuses a track_width that is not positive and a
\* radians_per_meter that is not positive, so that no initialized controller,
\* and no update tick that ran, ever has track_width_ <= 0 or
\* radians_per_meter_ <= 0.
C22_PositiveConfig ==
  initialized_ \/ (ret.op = "update" /\ ret.val) =>
    track_width_ > 0 /\ radians_per_meter_ > 0

\* C23: an update tick on which a feedback value of a wheel is NaN, or
\* track_width_ is zero, reports failure and leaves the stored pose as it
\* was, with no NaN in x, y or theta.
C23_NaNGuarded ==
  [][/\ ret'.op = "update"
     /\ \/ left_.nan # {}
        \/ right_.nan # {}
        \/ track_width_ = 0
     => /\ ~ret'.val
        /\ odom_'.x = odom_.x /\ odom_'.y = odom_.y /\ theta_' = theta_
        /\ nonfinite' \cap {"x", "y", "theta_"} = {}]_vars

\* C24: if a joint rejects the setpoint written to it during an update tick,
\* the tick returns failure, and each joint is written at most once in the
\* tick.
C24_RejectedWriteFails ==
  [][/\ ret'.op = "update"
     /\ \/ left_.faulty /\ left_'.writes > left_.writes
        \/ right_.faulty /\ right_'.writes > right_.writes
     => /\ ~ret'.val
        /\ left_'.writes <= left_.writes + 1
        /\ right_'.writes <= right_.writes + 1]_vars

\* C25: after any tick that ends with the issued twist exactly (0, 0), the
\* setpoints last written to the two joints are (0, 0): a ramp-down never
\* leaves the joints holding the last non-zero setpoint.
C25_ZeroSetpointWritten ==
  ret.op = "update" /\ ret.val /\ last_sent_x_ = 0 /\ last_sent_r_ = 0 =>
    left_.command = 0 /\ right_.command = 0

\* C26: a fresh command is never lost to the timeout branch: whenever a tick
\* starts with now - last_command_ < timeout_ and no callback under way, the
\* stored desired twist it will ramp toward is the twist of the command
\* received last, not a zero written by an earlier tick.
C26_FreshCommandKept ==
  [][/\ tick.pc = "idle" /\ tick'.pc = "tested"
     /\ ~tick'.stale
     /\ callback.pc = "idle"
     => /\ desired_x_ = callback.x
        /\ desired_r_ = callback.r]_vars

\* C27: after any sequence of commands and update ticks the issued twist is
\* within the configured velocity limits, whatever velocity was commanded.
C27_WithinVelocityLimits ==
  /\ Abs(last_sent_x_) <= max_velocity_x_
  /\ Abs(last_sent_r_) <= max_velocity_r_

\* the pose: position and heading, as stored and as published
pose == <<odom_.x, odom_.y, odom_.orientation, theta_>>

\* C28: the pose is the zero pose at construction and only an update tick
\* that returns true changes it; command, start, preempt and publish change
\* neither the pose nor the issued twist, and start and preempt change no
\* member of the controller at all.
C28_PoseFrame ==
  /\ pose = <<0, 0, 0, 0>>
  /\ [][/\ ~(ret'.op = "update" /\ ret'.val) => pose' = pose
        /\ ret'.op \in {"command", "start", "preempt", "publish"}
           => /\ pose' = pose
              /\ last_sent_x_' = last_sent_x_
              /\ last_sent_r_' = last_sent_r_
        /\ ret'.op \in {"start", "preempt"} => ctrl' = ctrl]_vars

\* C28 witness: the odometry was published after the robot had moved, the
\* pose being as the last update tick left it.
C28_Witness ==
  /\ ret.op = "publish"
  /\ odom_.x # 0
  /\ odom_pub_ # <<>>
  /\ odom_pub_[Len(odom_pub_)].x = odom_.x

\* what a command received by an initialized controller stores and leaves
CommandStored(x, r) ==
  /\ desired_x_' = x
  /\ desired_r_' = r
  /\ last_command_' = clock
  /\ pose' = pose
  /\ last_sent_x_' = last_sent_x_
  /\ last_sent_r_' = last_sent_r_

\* C29 as stated: a command received by an initialized controller stores its
\* desired linear and angular velocity and its arrival time, and changes
\* neither the phase of the controller nor the issued twist nor the pose.
C29_CommandKeepsPhase ==
  [][\A x \in DesiredX, r \in DesiredR :
       initialized_ /\ command(x, r) =>
         CommandStored(x, r) /\ phase' = phase]_vars

\* C29 amended: a command received by an initialized controller stores its
\* desired linear and angular velocity and its arrival time, changes neither
\* the issued twist nor the pose, and asks the manager for a start, which
\* succeeds: the controller is Running afterwards, whatever its phase was.
C29_CommandStarts ==
  [][\A x \in DesiredX, r \in DesiredR :
       initialized_ /\ command(x, r) =>
         CommandStored(x, r) /\ phase' = "Running"]_vars

\* C29 witness: a command received after the robot had moved and a new
\* command had been issued: it is stored, and the controller is running.
C29_Witness ==
  /\ ret = Called("command", TRUE, FALSE)
  /\ phase = "Running"
  /\ desired_x_ = 3 /\ last_command_ = clock
  /\ last_sent_x_ = -3
  /\ odom_.x # 0

\* C30: while the controller is uninitialized a received command is
\* discarded (nothing stored, no start requested), start returns failure, and
\* update returns failure without changing the issued twist or the pose and
\* without writing to the joints.
C30_UninitializedRefuses ==
  [][~initialized_ /\ ret'.op \in {"command", "start", "update"} =>
       /\ ~ret'.val
       /\ ctrl' = ctrl
       /\ joints' = joints
       /\ phase' = phase]_vars

\* C30 witness: update was refused on an uninitialized controller whose
\* wheels had been pushed: it took no note of the time or of the positions.
C30_Witness ==
  /\ ~initialized_
  /\ ret = Called("update", FALSE, FALSE)
  /\ left_.position # 0
  /\ left_last_position_ = 0
  /\ last_update_ = 0
  /\ left_.writes = 0

\* How far the update under way has come: past the timeout gate, past the
\* ramp, past the sampling of the joints, past the integration of the pose.
Gated == tick.pc # "idle"
Limited == tick.pc \in {"limited", "sampled", "integrated", "commanded"}
Sampled == tick.pc \in {"sampled", "integrated", "commanded"}
Integrated == tick.pc \in {"integrated", "commanded"}

\* What a step of an update (a step of the control thread) does: the gate
\* zeroes the desired twist, the ramp changes the issued twist, the joints
\* are sampled, the pose is integrated, the setpoints are written, the twist
\* estimate is stored.
GateActs ==
  tick' # tick /\ <<desired_x_, desired_r_>>' # <<desired_x_, desired_r_>>
RampActs ==
  tick' # tick
  /\ <<last_sent_x_, last_sent_r_>>' # <<last_sent_x_, last_sent_r_>>
SampleActs ==
  tick' # tick
  /\ <<left_last_position_, right_last_position_>>'
       # <<left_last_position_, right_last_position_>>
IntegrateActs ==
  tick' # tick /\ <<odom_.x, odom_.y, theta_>>' # <<odom_.x, odom_.y, theta_>>
WriteActs ==
  tick' # tick
  /\ (left_'.writes > left_.writes \/ right_'.writes > right_.writes)
StoreActs == tick' # tick /\ <<odom_.vx, odom_.vr>>' # <<odom_.vx, odom_.vr>>
PublishActs == Len(odom_pub_') > Len(odom_pub_)

\* C31 as stated: within an update tick the timeout gate comes first, then
\* the ramp, then the write of the wheel setpoints, then the sampling of the
\* joints, then the integration of pose and twist from that sample; publish
\* is handed the result of the tick just completed.
C31_WriteBeforeSample ==
  [][/\ GateActs => ~Gated
     /\ RampActs => Gated /\ ~Limited
     /\ WriteActs => Limited /\ ~Sampled
     /\ IntegrateActs => Sampled
     /\ StoreActs => Sampled
     /\ PublishActs => ~Gated /\ odom_pub_'[Len(odom_pub_')] = odom_']_vars

\* C31 amended: within an update tick the timeout gate comes first, then the
\* ramp, then the sampling of the joints, then the integration of the pose
\* from that sample, then the write of the wheel setpoints (gated on the
\* twist just sampled), then the storing of orientation and twist; publish
\* is handed the result of the tick just completed.
C31_SampleBeforeWrite ==
  [][/\ GateActs => ~Gated
     /\ RampActs => Gated /\ ~Limited
     /\ SampleActs => Limited /\ ~Sampled
     /\ IntegrateActs => Sampled /\ ~Integrated
     /\ WriteActs => Integrated /\ tick.pc # "commanded"
     /\ StoreActs => tick.pc = "commanded"
     /\ PublishActs => ~Gated /\ odom_pub_'[Len(odom_pub_')] = odom_']_vars

\* C31 witness: the setpoints have just been written in a tick that had
\* already taken the joint positions and moved the pose by them, and that
\* has yet to store the twist it sampled.
C31_Witness ==
  /\ tick.pc = "commanded"
  /\ left_.writes = 1 /\ left_.command # 0
  /\ left_.position # 0 /\ left_last_position_ = left_.position
  /\ odom_.x # 0
  /\ tick.dx # 0 /\ odom_.vx = 0

\* C32: each publish(time) call emits exactly one odometry record, stamped
\* with time and carrying the position, orientation and twist the controller
\* stores (those of the most recent update), emits the transform from the
\* odometry frame to the base frame, with the same position, orientation and
\* stamp, if and only if publish_tf_ is set, and changes neither the pose nor
\* the twist estimate nor the issued twist.
C32_PublishEmits ==
  [][ret'.op = "publish" =>
       /\ ret'.val
       /\ Len(odom_pub_') = Len(odom_pub_) + 1
       /\ SubSeq(odom_pub_', 1, Len(odom_pub_)) = odom_pub_
       /\ odom_pub_'[Len(odom_pub_')] = [odom_ EXCEPT !.stamp = clock]
       /\ IF publish_tf_
            THEN broadcaster_' = Append(broadcaster_, Transform(odom_, clock))
            ELSE broadcaster_' = broadcaster_
       /\ pose' = pose
       /\ odom_'.vx = odom_.vx /\ odom_'.vr = odom_.vr
       /\ last_sent_x_' = last_sent_x_ /\ last_sent_r_' = last_sent_r_]_vars

\* C32 witness: with publish_tf_ unset, the odometry of a robot that has
\* moved and is moving was published at the present time, and no transform
\* was sent.
C32_Witness ==
  /\ ret.op = "publish"
  /\ ~publish_tf_
  /\ broadcaster_ = <<>>
  /\ Len(odom_pub_) = 1
  /\ odom_pub_[1].stamp = clock /\ clock > BootTime
  /\ odom_pub_[1].x # 0 /\ odom_pub_[1].vx # 0

\* the members of Jockey
JockeyState == <<start_time_, interrupted_, interruption_time_, resume_time_,
                 interruptions_duration_>>

\* Since initAction: interruptions_duration_ is the sum over the closed
\* interruptions, an interruption is under way exactly when interrupted_
\* says so, its time being that of its first interrupt call, and the
\* completion duration is the time since the start less that sum.
InterruptionsSummed ==
  episode.init =>
    /\ interruptions_duration_ = episode.sum
    /\ interrupted_ = episode.open
    /\ episode.open => interruption_time_ = episode.first
    /\ getCompletionDuration = clock - start_time_ - episode.sum

\* C33: in a Jockey action, interrupt() while interrupted and resume() while
\* not interrupted change nothing; after any interrupt and resume calls since
\* initAction, interruptions_duration_ is the sum of resume time less
\* interruption time over the completed pairs, each pair counted once from
\* its first interrupt call, and it never decreases.
C33_InterruptionsCounted ==
  [][/\ InterruptionsSummed'
     /\ episode.init /\ episode' # episode =>
          /\ episode'.call = "interrupt" /\ interrupted_
               => UNCHANGED <<JockeyState, result_>>
          /\ episode'.call = "resume" /\ ~interrupted_
               => UNCHANGED <<JockeyState, result_>>
          /\ episode'.call # "initAction"
               => interruptions_duration_' >= interruptions_duration_]_vars

\* C33 witness: the second interruption of an action has just been closed;
\* it lasted two clock units and the first one lasted one.
C33_Witness ==
  /\ episode.init /\ episode.call = "resume"
  /\ ~interrupted_
  /\ resume_time_ = clock
  /\ interruption_time_ = clock - 2
  /\ interruptions_duration_ = 3
  /\ getCompletionDuration = 1


\* the running flag of each velocity timer tells whether the timer is started
FlagsFollowTimers ==
  /\ joint_vel_timer_flag_ = joint_vel_timer_.started
  /\ cartesian_vel_timer_flag_ = cartesian_vel_timer_.started

JointCommandAge == clock - last_joint_vel_cmd_time_
CartesianCommandAge == clock - last_cartesian_vel_cmd_time_

\* C34: the arm driver's joint and cartesian velocity timers send the stored
\* velocities to the arm only on a tick of the started timer at which the
\* last command is at most the timeout old; a tick at which it is older
\* stops the timer and clears its running flag and sends nothing, and only
\* a new command starts the timer again; the running flag is true exactly
\* when the timer is started; a command that arrives while the arm is
\* stopped changes nothing.
C34_VelocityTimers ==
  /\ FlagsFollowTimers
  /\ [][/\ FlagsFollowTimers'
        /\ jaco_comm_'.joint # jaco_comm_.joint =>
             /\ joint_vel_timer_.started
             /\ clock >= joint_vel_timer_.due
             /\ JointCommandAge <= joint_vel_timeout_seconds_
             /\ jaco_comm_'.joint =
                  Append(jaco_comm_.joint, joint_velocities_)
        /\ jaco_comm_'.cartesian # jaco_comm_.cartesian =>
             /\ cartesian_vel_timer_.started
             /\ clock >= cartesian_vel_timer_.due
             /\ CartesianCommandAge <= cartesian_vel_timeout_seconds_
             /\ jaco_comm_'.cartesian =
                  Append(jaco_comm_.cartesian, cartesian_velocities_)
        /\ JointTimerFires =>
             IF JointCommandAge > joint_vel_timeout_seconds_
               THEN /\ ~joint_vel_timer_'.started
                    /\ ~joint_vel_timer_flag_'
                    /\ jaco_comm_' = jaco_comm_
               ELSE /\ joint_vel_timer_'.started
                    /\ jaco_comm_'.joint # jaco_comm_.joint
        /\ CartesianTimerFires =>
             IF CartesianCommandAge > cartesian_vel_timeout_seconds_
               THEN /\ ~cartesian_vel_timer_'.started
                    /\ ~cartesian_vel_timer_flag_'
                    /\ jaco_comm_' = jaco_comm_
               ELSE /\ cartesian_vel_timer_'.started
                    /\ jaco_comm_'.cartesian # jaco_comm_.cartesian
        /\ ~joint_vel_timer_.started /\ joint_vel_timer_'.started =>
             /\ ~jaco_comm_.stopped
             /\ last_joint_vel_cmd_time_' = clock
             /\ joint_vel_timer_'.due = clock + joint_vel_interval_seconds_
        /\ ~cartesian_vel_timer_.started /\ cartesian_vel_timer_'.started =>
             /\ ~jaco_comm_.stopped
             /\ last_cartesian_vel_cmd_time_' = clock
             /\ cartesian_vel_timer_'.due =
                  clock + cartesian_vel_interval_seconds_
        /\ jaco_comm_.stopped /\
           (JointVelocityArrives \/ CartesianVelocityArrives) =>
             arm' = arm]_vars

\* both timers have sent, the joint timer has then stopped on an old command
\* while the arm is stopped
C34_Witness ==
  /\ Len(jaco_comm_.joint) >= 2
  /\ Len(jaco_comm_.cartesian) >= 1
  /\ ~joint_vel_timer_.started
  /\ ~joint_vel_timer_flag_
  /\ cartesian_vel_timer_flag_
  /\ jaco_comm_.stopped
  /\ JointCommandAge > joint_vel_timeout_seconds_

====
